---- MODULE Spec2Model ----
(***************************************************************************)
(* Particle boundary exchange of bvals_part.cpp: the boundary-crossing     *)
(* detector (SetNewPrtclGID / UpdateGID), the transfer-list builder and    *)
(* rendezvous (CountSendsAndRecvs), the receive initiator (InitPrtclRecv)  *)
(* and pack-and-send (PackAndSendPrtcls), one process per MPI rank.        *)
(*                                                                         *)
(* Arrays are functions on 0..n-1, as in the code.  Coordinates are exact  *)
(* integers.                                                               *)
(***************************************************************************)
EXTENDS Integers, Sequences, FiniteSets, TLC

\* ------------------------------------------------------------------ bounds
\* number of MPI ranks; the mesh has one x3-layer of blocks per rank
NRanks == 3
\* number of MeshBlocks along x1 and along x2
MeshNB == 3
\* width of a MeshBlock along every axis
BlockW == 2
\* how far past an extent of its block a particle may have been pushed
Reach == 1
\* coordinate of the lower corner of the mesh
MeshOrigin == 1
\* number of particles in the whole run of the exchange pipeline
NPrtcl == 2
\* number of parallel lanes (particles) of the detector kernel
NLanes == 3
\* number of particles of the rank whose send list is sorted and coalesced
NDepart == 3
\* number of steps run one after the other
NSteps == 2

Ranks == 0..(NRanks - 1)

\* ------------------------------------------------------------ 0-based arrays
Len0(f) == Cardinality(DOMAIN f)
Empty0 == [n \in {} |-> 0]
Append0(f, e) == [n \in 0..Len0(f) |-> IF n < Len0(f) THEN f[n] ELSE e]

\* ------------------------------------------------------------------- mesh
\* The mesh, the block extents and the neighbor table are inputs of the
\* exchange (pmy_pack->pmb->mb_size, pmesh->mesh_size, pmb->nghbr): a uniform
\* periodic mesh of MeshNB x MeshNB x NRanks blocks, rank r owning layer r.
NmbPerRank == MeshNB * MeshNB
NGids == NmbPerRank * NRanks
Gids(r) == r * NmbPerRank
RankOfGid(g) == g \div NmbPerRank

BlkI(g) == g % MeshNB
BlkJ(g) == (g \div MeshNB) % MeshNB
BlkK(g) == g \div NmbPerRank
GidAt(i, j, k) == (i % MeshNB) + MeshNB * (j % MeshNB) + NmbPerRank * (k % NRanks)

MbSize(r, m) ==
  LET g == Gids(r) + m IN
  [x1min |-> MeshOrigin + BlkI(g) * BlockW, x1max |-> MeshOrigin + (BlkI(g) + 1) * BlockW,
   x2min |-> MeshOrigin + BlkJ(g) * BlockW, x2max |-> MeshOrigin + (BlkJ(g) + 1) * BlockW,
   x3min |-> MeshOrigin + BlkK(g) * BlockW, x3max |-> MeshOrigin + (BlkK(g) + 1) * BlockW]

MeshSize ==
  [x1min |-> MeshOrigin, x1max |-> MeshOrigin + MeshNB * BlockW,
   x2min |-> MeshOrigin, x2max |-> MeshOrigin + MeshNB * BlockW,
   x3min |-> MeshOrigin, x3max |-> MeshOrigin + NRanks * BlockW]

\* the neighbor slots the detector reads, and "no slot read"
FaceSlots == {0, 4, 8, 12, 24, 28}
EdgeSlots == {16, 18, 20, 22, 32, 34, 36, 38, 40, 42, 44, 46}
CornerSlots == 48..55
UsedSlots == FaceSlots \cup EdgeSlots \cup CornerSlots
NoSlot == 56

\* direction <<d1, d2, d3>> of the neighbor a slot describes
SlotDir(s) ==
  CASE s = 0  -> <<-1, 0, 0>>  [] s = 4  -> <<1, 0, 0>>
    [] s = 8  -> <<0, -1, 0>>  [] s = 12 -> <<0, 1, 0>>
    [] s = 24 -> <<0, 0, -1>>  [] s = 28 -> <<0, 0, 1>>
    [] s = 16 -> <<-1, -1, 0>> [] s = 18 -> <<1, -1, 0>>
    [] s = 20 -> <<-1, 1, 0>>  [] s = 22 -> <<1, 1, 0>>
    [] s = 32 -> <<-1, 0, -1>> [] s = 34 -> <<1, 0, -1>>
    [] s = 36 -> <<-1, 0, 1>>  [] s = 38 -> <<1, 0, 1>>
    [] s = 40 -> <<0, -1, -1>> [] s = 42 -> <<0, 1, -1>>
    [] s = 44 -> <<0, -1, 1>>  [] s = 46 -> <<0, 1, 1>>
    [] s \in CornerSlots ->
         <<IF (s - 48) % 2 = 1 THEN 1 ELSE -1,
           IF ((s - 48) \div 2) % 2 = 1 THEN 1 ELSE -1,
           IF ((s - 48) \div 4) % 2 = 1 THEN 1 ELSE -1>>

\* the mesh has periodic boundaries: every neighbor slot holds a block
VARIABLE periodic

\* what a neighbor slot holds where the mesh has no block
NoBlock == [gid |-> -1, rank |-> -1]

\* block indices <<i, j, k>> that lie on the mesh
OnMesh(i, j, k) ==
  /\ 0 <= i /\ i < MeshNB
  /\ 0 <= j /\ j < MeshNB
  /\ 0 <= k /\ k < NRanks

\* nghbr.d_view(m, s) of rank r: {gid, rank} of the neighbor, across the
\* boundary of the mesh if it is periodic
Nghbr(r, m, s) ==
  LET g == Gids(r) + m
      d == SlotDir(s)
      ng == GidAt(BlkI(g) + d[1] + MeshNB, BlkJ(g) + d[2] + MeshNB, BlkK(g) + d[3] + NRanks)
  IN IF periodic \/ OnMesh(BlkI(g) + d[1], BlkJ(g) + d[2], BlkK(g) + d[3])
     THEN [gid |-> ng, rank |-> RankOfGid(ng)]
     ELSE NoBlock

\* --------------------------------------------------------------- detector
\* the range tests with the slots of two corners exchanged
ResolveSlotSwapped(mb, x1, x2, x3) ==
  IF x1 < mb.x1min THEN
    IF x2 < mb.x2min THEN
      IF x3 < mb.x3min THEN 48 ELSE IF x3 > mb.x3max THEN 50 ELSE 16
    ELSE IF x2 > mb.x2max THEN
      IF x3 < mb.x3min THEN 52 ELSE IF x3 > mb.x3max THEN 54 ELSE 20
    ELSE
      IF x3 < mb.x3min THEN 32 ELSE IF x3 > mb.x3max THEN 36 ELSE 0
  ELSE IF x1 > mb.x1max THEN
    IF x2 < mb.x2min THEN
      IF x3 < mb.x3min THEN 49 ELSE IF x3 > mb.x3max THEN 53 ELSE 18
    ELSE IF x2 > mb.x2max THEN
      IF x3 < mb.x3min THEN 51 ELSE IF x3 > mb.x3max THEN 55 ELSE 22
    ELSE
      IF x3 < mb.x3min THEN 34 ELSE IF x3 > mb.x3max THEN 38 ELSE 4
  ELSE
    IF x2 < mb.x2min THEN
      IF x3 < mb.x3min THEN 40 ELSE IF x3 > mb.x3max THEN 44 ELSE 8
    ELSE IF x2 > mb.x2max THEN
      IF x3 < mb.x3min THEN 42 ELSE IF x3 > mb.x3max THEN 46 ELSE 12
    ELSE
      IF x2 < mb.x2min THEN 24 ELSE IF x3 > mb.x3max THEN 28 ELSE NoSlot

\* the range tests with the upper extents tested by >= instead of >
ResolveSlotNonStrict(mb, x1, x2, x3) ==
  IF x1 < mb.x1min THEN
    IF x2 < mb.x2min THEN
      IF x3 < mb.x3min THEN 48 ELSE IF x3 >= mb.x3max THEN 52 ELSE 16
    ELSE IF x2 >= mb.x2max THEN
      IF x3 < mb.x3min THEN 50 ELSE IF x3 >= mb.x3max THEN 54 ELSE 20
    ELSE
      IF x3 < mb.x3min THEN 32 ELSE IF x3 >= mb.x3max THEN 36 ELSE 0
  ELSE IF x1 >= mb.x1max THEN
    IF x2 < mb.x2min THEN
      IF x3 < mb.x3min THEN 49 ELSE IF x3 >= mb.x3max THEN 53 ELSE 18
    ELSE IF x2 >= mb.x2max THEN
      IF x3 < mb.x3min THEN 51 ELSE IF x3 >= mb.x3max THEN 55 ELSE 22
    ELSE
      IF x3 < mb.x3min THEN 34 ELSE IF x3 >= mb.x3max THEN 38 ELSE 4
  ELSE
    IF x2 < mb.x2min THEN
      IF x3 < mb.x3min THEN 40 ELSE IF x3 >= mb.x3max THEN 44 ELSE 8
    ELSE IF x2 >= mb.x2max THEN
      IF x3 < mb.x3min THEN 42 ELSE IF x3 >= mb.x3max THEN 46 ELSE 12
    ELSE
      IF x2 < mb.x2min THEN 24 ELSE IF x3 >= mb.x3max THEN 28 ELSE NoSlot

\* the nested range tests of the kernel: the slot whose neighbor is read
ResolveSlot(mb, x1, x2, x3) ==
  IF x1 < mb.x1min THEN
    IF x2 < mb.x2min THEN
      IF x3 < mb.x3min THEN 48 ELSE IF x3 > mb.x3max THEN 52 ELSE 16
    ELSE IF x2 > mb.x2max THEN
      IF x3 < mb.x3min THEN 50 ELSE IF x3 > mb.x3max THEN 54 ELSE 20
    ELSE
      IF x3 < mb.x3min THEN 32 ELSE IF x3 > mb.x3max THEN 36 ELSE 0
  ELSE IF x1 > mb.x1max THEN
    IF x2 < mb.x2min THEN
      IF x3 < mb.x3min THEN 49 ELSE IF x3 > mb.x3max THEN 53 ELSE 18
    ELSE IF x2 > mb.x2max THEN
      IF x3 < mb.x3min THEN 51 ELSE IF x3 > mb.x3max THEN 55 ELSE 22
    ELSE
      IF x3 < mb.x3min THEN 34 ELSE IF x3 > mb.x3max THEN 38 ELSE 4
  ELSE
    IF x2 < mb.x2min THEN
      IF x3 < mb.x3min THEN 40 ELSE IF x3 > mb.x3max THEN 44 ELSE 8
    ELSE IF x2 > mb.x2max THEN
      IF x3 < mb.x3min THEN 42 ELSE IF x3 > mb.x3max THEN 46 ELSE 12
    ELSE
      IF x2 < mb.x2min THEN 24 ELSE IF x3 > mb.x3max THEN 28 ELSE NoSlot

\* the periodic reset that subtracts the upper extent instead of the width
WrapAxisByExtent(x, lo, hi) ==
  IF x < lo THEN x + hi ELSE IF x > hi THEN x - hi ELSE x

\* the periodic reset with the mesh extents tested by <= and >=
WrapAxisNonStrict(x, lo, hi) ==
  IF x <= lo THEN x + (hi - lo) ELSE IF x >= hi THEN x - (hi - lo) ELSE x

\* the periodic reset of one coordinate against the mesh extents
WrapAxis(x, lo, hi) ==
  IF x < lo THEN x + (hi - lo) ELSE IF x > hi THEN x - (hi - lo) ELSE x

WrapPos(x) ==
  <<WrapAxis(x[1], MeshSize.x1min, MeshSize.x1max),
    WrapAxis(x[2], MeshSize.x2min, MeshSize.x2max),
    WrapAxis(x[3], MeshSize.x3min, MeshSize.x3max)>>

\* slot resolved for a particle of rank r with owning block gid at position x
SlotOf(r, gid, x) == ResolveSlot(MbSize(r, gid - Gids(r)), x[1], x[2], x[3])

\* UpdateGID: the new owning-block id
NewGid(r, gid, x) ==
  LET s == SlotOf(r, gid, x) IN
  IF s = NoSlot THEN gid ELSE Nghbr(r, gid - Gids(r), s).gid

\* the test of UpdateGID passing for every neighbor that was resolved
OffRankAnyNghbr(r, gid, x) == SlotOf(r, gid, x) # NoSlot

\* UpdateGID: is a send-list entry claimed (neighbor owned by another rank)
OffRank(r, gid, x) ==
  LET s == SlotOf(r, gid, x) IN
  s # NoSlot /\ Nghbr(r, gid - Gids(r), s).rank # r

\* UpdateGID: the send-list entry {prtcl_indx, dest_gid, dest_rank} of particle p
SendRec(r, p, gid, x) ==
  LET nb == Nghbr(r, gid - Gids(r), SlotOf(r, gid, x)) IN
  [prtcl_indx |-> p, dest_gid |-> nb.gid, dest_rank |-> nb.rank]

NullRec == [prtcl_indx |-> -1, dest_gid |-> -1, dest_rank |-> -1]

\* ------------------------------------------------------------------ state
VARIABLES
  pc,              \* per rank: the task of the step it runs next
  ppos, pgid,      \* per rank: prtcl_pos, prtcl_gid
  ppos0, pgid0,    \* per rank: positions and ids as the detector found them
  slot,            \* per rank, per particle: the neighbor slot read (NoSlot: none)
  sendlist_buf,    \* per rank: device send list written by UpdateGID
  nprtcl_send,     \* per rank: number of particles to send
  counter,         \* the kernel's departure counter (*pcounter)
  lane_pc,         \* per lane of the kernel: where the lane stands
  lane_nb,         \* per lane: the NeighborBlock passed to UpdateGID
  lane_idx,        \* per lane: the index its fetch-and-add returned
  nwrites,         \* per send-list entry: how many lanes wrote it
  pvel,            \* per rank: prtcl_vel
  sendlist,        \* per rank: the send list copied to the host and sorted
  sendlist_d,      \* per rank: the device view of that list (sendlist.d_view)
  sends_thisrank,  \* per rank: <<sendrank, recvrank, nprtcl>> tuples of this rank
  nsends,          \* per rank: sends_thisrank.size()
  nsends_eachrank, \* per rank: number of tuples of every rank
  sends_allranks,  \* per rank: the tuples of all ranks
  gath, gathv,     \* per rank: what it contributed to MPI_Allgather / MPI_Allgatherv
  recvs_thisrank,  \* per rank: tuples whose recvrank is this rank
  nrecvs,          \* per rank: recvs_thisrank.size()
  nprtcl_recv,     \* per rank: number of particles to receive
  recv_req,        \* per rank: the receives posted, one per request
  prtcl_sendbuf,   \* per rank: the send buffer of wire records
  send_req,        \* per rank: the sends posted, one per request
  prtcl_recvbuf,   \* per rank: the receive buffer of wire records
  recv_stat,       \* per rank, per entry of recv_req: state of the MPI request
  send_stat,       \* per rank, per entry of send_req: state of the MPI request
  recv_cleared,    \* per rank: ClearPrtclRecv has returned complete
  send_cleared,    \* per rank: ClearPrtclSend has returned complete
  no_errors,       \* per rank: the flag no_errors of the task it is in
  ierrs,           \* per rank: what the MPI calls of that task's loop returned so far
  pack_pc,         \* per rank, per lane of the packing kernel: "run" or "done"
  nstep            \* number of steps completed

dvars == <<pc, ppos, pgid, ppos0, pgid0, slot, sendlist_buf, nprtcl_send>>
lvars == <<counter, lane_pc, lane_nb, lane_idx, nwrites>>
cvars == <<sendlist, sendlist_d, sends_thisrank, nsends, nsends_eachrank, sends_allranks,
           gath, gathv>>
xvars == <<pvel, recvs_thisrank, nrecvs, nprtcl_recv, recv_req, prtcl_sendbuf, send_req,
           prtcl_recvbuf, recv_stat, send_stat, recv_cleared, send_cleared>>
fvars == <<periodic, no_errors, ierrs, pack_pc, nstep>>
vars == <<dvars, lvars, cvars, xvars, fvars>>

\* positions a particle owned by block g may have when the detector runs
AxisRange(lo, hi) == (lo - Reach)..(hi + Reach)
BlockPositions(r, m) ==
  LET mb == MbSize(r, m) IN
  AxisRange(mb.x1min, mb.x1max) \X AxisRange(mb.x2min, mb.x2max)
     \X AxisRange(mb.x3min, mb.x3max)

Npart(r) == Len0(ppos[r])

\* velocity of particle p of rank r: distinct for distinct particles
VelOf(r, p) == <<1 + p, 1 + r, 0>>

\* nothing of the exchange has run yet in this step
ExchangeIdle ==
  /\ pvel = [r \in Ranks |-> [p \in DOMAIN ppos[r] |-> VelOf(r, p)]]
  /\ sendlist = [r \in Ranks |-> Empty0]
  /\ sendlist_d = [r \in Ranks |-> Empty0]
  /\ sends_thisrank = [r \in Ranks |-> Empty0]
  /\ nsends = [r \in Ranks |-> 0]
  /\ nsends_eachrank = [r \in Ranks |-> [q \in Ranks |-> 0]]
  /\ sends_allranks = [r \in Ranks |-> Empty0]
  /\ gath = [r \in Ranks |-> -1]
  /\ gathv = [r \in Ranks |-> Empty0]
  /\ recvs_thisrank = [r \in Ranks |-> Empty0]
  /\ nrecvs = [r \in Ranks |-> 0]
  /\ nprtcl_recv = [r \in Ranks |-> 0]
  /\ recv_req = [r \in Ranks |-> Empty0]
  /\ prtcl_sendbuf = [r \in Ranks |-> Empty0]
  /\ send_req = [r \in Ranks |-> Empty0]
  /\ prtcl_recvbuf = [r \in Ranks |-> Empty0]
  /\ recv_stat = [r \in Ranks |-> Empty0]
  /\ send_stat = [r \in Ranks |-> Empty0]
  /\ recv_cleared = [r \in Ranks |-> FALSE]
  /\ send_cleared = [r \in Ranks |-> FALSE]
  /\ no_errors = [r \in Ranks |-> TRUE]
  /\ ierrs = [r \in Ranks |-> Empty0]
  /\ pack_pc = [r \in Ranks |-> Empty0]
  /\ nstep = 0

\* no exchange under way, on a periodic mesh
NoExchange == ExchangeIdle /\ periodic = TRUE

\* the kernel is not being run lane by lane
NoLanes ==
  /\ counter = 0
  /\ lane_pc = Empty0
  /\ lane_nb = Empty0
  /\ lane_idx = Empty0
  /\ nwrites = Empty0

\* bijections of 0..k-1 onto a set of k particle indices: the orders in which
\* the lanes of the kernel may have claimed send-list entries
Orders(S) ==
  {f \in [0..(Cardinality(S) - 1) -> S] : \A a, b \in DOMAIN f : a # b => f[a] # f[b]}

\* SetNewPrtclGID on rank r, the whole kernel
SetNewPrtclGID(r) ==
  /\ pc[r] = "detect"
  /\ LET dep == {p \in DOMAIN ppos[r] : OffRank(r, pgid[r][p], ppos[r][p])} IN
     \E ord \in Orders(dep) :
       /\ sendlist_buf' = [sendlist_buf EXCEPT ![r] =
            [n \in DOMAIN ppos[r] |->
               IF n < Cardinality(dep)
               THEN SendRec(r, ord[n], pgid[r][ord[n]], ppos[r][ord[n]])
               ELSE sendlist_buf[r][n]]]
       /\ nprtcl_send' = [nprtcl_send EXCEPT ![r] = Cardinality(dep)]
  /\ slot' = [slot EXCEPT ![r] =
       [p \in DOMAIN ppos[r] |-> SlotOf(r, pgid[r][p], ppos[r][p])]]
  /\ pgid' = [pgid EXCEPT ![r] =
       [p \in DOMAIN ppos[r] |-> NewGid(r, pgid[r][p], ppos[r][p])]]
  /\ ppos' = [ppos EXCEPT ![r] = [p \in DOMAIN ppos[r] |-> WrapPos(ppos[r][p])]]
  /\ pc' = [pc EXCEPT ![r] = "count"]
  /\ UNCHANGED <<ppos0, pgid0, lvars, cvars, xvars, fvars>>

\* ------------------------------------------------- detector, one particle
\* one particle anywhere on the mesh, on the rank that owns its block
InitDetect ==
  \E r0 \in Ranks : \E m \in 0..(NmbPerRank - 1) : \E x \in BlockPositions(r0, m) :
    /\ pc = [r \in Ranks |-> "detect"]
    /\ ppos = [r \in Ranks |-> IF r = r0 THEN [p \in {0} |-> x] ELSE Empty0]
    /\ pgid = [r \in Ranks |-> IF r = r0 THEN [p \in {0} |-> Gids(r0) + m] ELSE Empty0]
    /\ ppos0 = ppos
    /\ pgid0 = pgid
    /\ slot = [r \in Ranks |-> [p \in DOMAIN ppos[r] |-> NoSlot]]
    /\ sendlist_buf = [r \in Ranks |-> [p \in DOMAIN ppos[r] |-> NullRec]]
    /\ nprtcl_send = [r \in Ranks |-> 0]
    /\ NoLanes
    /\ NoExchange

NextDetect == \E r \in Ranks : SetNewPrtclGID(r)

SpecDetect == InitDetect /\ [][NextDetect]_vars

\* ------------------------------------------- detector kernel, lane by lane
\* The kernel of SetNewPrtclGID on one rank, one lane per particle, the lanes
\* interleaved in any order; *pcounter is the only location lanes share.
LaneRank == NRanks - 1
Lanes == 0..(NLanes - 1)

\* positions of the lanes' particles: inside, or past the x1 and x3 extents
LaneAxis(lo, hi) == {lo - 1, lo + 1, hi + 1}
LanePositions ==
  LET mb == MbSize(LaneRank, 0) IN
  {mb.x1min + 1, mb.x1max + 1} \X {mb.x2min + 1} \X LaneAxis(mb.x3min, mb.x3max)

InitLanes ==
  \E xs \in [Lanes -> LanePositions] :
    /\ pc = [r \in Ranks |-> "detect"]
    /\ ppos = [r \in Ranks |-> IF r = LaneRank THEN xs ELSE Empty0]
    /\ pgid = [r \in Ranks |-> IF r = LaneRank THEN [p \in Lanes |-> Gids(r)] ELSE Empty0]
    /\ ppos0 = ppos
    /\ pgid0 = pgid
    /\ slot = [r \in Ranks |-> [p \in DOMAIN ppos[r] |-> NoSlot]]
    /\ sendlist_buf = [r \in Ranks |-> [p \in DOMAIN ppos[r] |-> NullRec]]
    /\ nprtcl_send = [r \in Ranks |-> 0]
    /\ counter = 0
    /\ lane_pc = [p \in Lanes |-> "start"]
    /\ lane_nb = [p \in Lanes |-> [gid |-> -1, rank |-> -1]]
    /\ lane_idx = [p \in Lanes |-> -1]
    /\ nwrites = [n \in Lanes |-> 0]
    /\ NoExchange

\* the range tests of lane p and, when a slot is resolved, the assignment
\* newgid = nghbr.gid of UpdateGID
LaneResolve(p) ==
  LET r == LaneRank
      s == SlotOf(r, pgid[r][p], ppos[r][p])
  IN /\ lane_pc[p] = "start"
     /\ slot' = [slot EXCEPT ![r][p] = s]
     /\ IF s = NoSlot
        THEN /\ lane_pc' = [lane_pc EXCEPT ![p] = "wrap"]
             /\ UNCHANGED <<pgid, lane_nb>>
        ELSE LET nb == Nghbr(r, pgid[r][p] - Gids(r), s) IN
             /\ lane_nb' = [lane_nb EXCEPT ![p] = nb]
             /\ pgid' = [pgid EXCEPT ![r][p] = nb.gid]
             /\ lane_pc' = [lane_pc EXCEPT ![p] = IF nb.rank # r THEN "claim" ELSE "wrap"]
     /\ UNCHANGED <<pc, ppos, ppos0, pgid0, sendlist_buf, nprtcl_send, counter,
                    lane_idx, nwrites, cvars, xvars, fvars>>

\* a fetch-and-add that is a load followed by a store
RacyFetchAdd(p) ==
  IF lane_idx[p] < 0
  THEN /\ lane_idx' = [lane_idx EXCEPT ![p] = counter]
       /\ UNCHANGED <<counter, lane_pc>>
  ELSE /\ counter' = lane_idx[p] + 1
       /\ lane_pc' = [lane_pc EXCEPT ![p] = "write"]
       /\ UNCHANGED lane_idx

\* int index = Kokkos::atomic_fetch_add(pcounter, 1)
AtomicFetchAdd(p) ==
  /\ lane_idx' = [lane_idx EXCEPT ![p] = counter]
  /\ counter' = counter + 1
  /\ lane_pc' = [lane_pc EXCEPT ![p] = "write"]

LaneClaim(p) ==
  /\ lane_pc[p] = "claim"
  /\ AtomicFetchAdd(p)
  /\ UNCHANGED <<dvars, lane_nb, nwrites, cvars, xvars, fvars>>

\* the three stores into sendlist_b(index)
LaneWrite(p) ==
  /\ lane_pc[p] = "write"
  /\ sendlist_buf' = [sendlist_buf EXCEPT ![LaneRank][lane_idx[p]] =
       [prtcl_indx |-> p, dest_gid |-> lane_nb[p].gid, dest_rank |-> lane_nb[p].rank]]
  /\ nwrites' = [nwrites EXCEPT ![lane_idx[p]] = @ + 1]
  /\ lane_pc' = [lane_pc EXCEPT ![p] = "wrap"]
  /\ UNCHANGED <<pc, ppos, pgid, ppos0, pgid0, slot, nprtcl_send, counter, lane_nb,
                 lane_idx, cvars, xvars, fvars>>

\* the periodic reset of the lane's particle
LaneWrap(p) ==
  /\ lane_pc[p] = "wrap"
  /\ ppos' = [ppos EXCEPT ![LaneRank][p] = WrapPos(@)]
  /\ lane_pc' = [lane_pc EXCEPT ![p] = "done"]
  /\ UNCHANGED <<pc, pgid, ppos0, pgid0, slot, sendlist_buf, nprtcl_send, counter,
                 lane_nb, lane_idx, nwrites, cvars, xvars, fvars>>

\* the kernel has ended: nprtcl_send = counter
KernelEnd ==
  /\ pc[LaneRank] = "detect"
  /\ \A p \in Lanes : lane_pc[p] = "done"
  /\ nprtcl_send' = [nprtcl_send EXCEPT ![LaneRank] = counter]
  /\ pc' = [pc EXCEPT ![LaneRank] = "count"]
  /\ UNCHANGED <<ppos, pgid, ppos0, pgid0, slot, sendlist_buf, lvars, cvars, xvars, fvars>>

NextLanes ==
  \/ \E p \in Lanes : LaneResolve(p)
  \/ \E p \in Lanes : LaneClaim(p)
  \/ \E p \in Lanes : LaneWrite(p)
  \/ \E p \in Lanes : LaneWrap(p)
  \/ KernelEnd

SpecLanes == InitLanes /\ [][NextLanes]_vars

\* ------------------------------------------------------- transfer lists
\* the comparison placing the higher destination rank first
SortByRankDesc(a, b) == a.dest_rank > b.dest_rank

\* bool SortByRank(a, b): the order std::sort is given
SortByRank(a, b) == a.dest_rank < b.dest_rank

\* the list left as the detector wrote it
Unsorted(list) == {list}

\* the results std::sort may leave: the entries of list in an order in which
\* no entry is followed by one that SortByRank places before it
Sorted(list) ==
  {[n \in DOMAIN list |-> list[o[n]]] : o \in
     {o \in Orders(DOMAIN list) :
        \A a, b \in DOMAIN list : a < b => ~SortByRank(list[o[b]], list[o[a]])}}

RECURSIVE CoalesceFromDropLast(_, _, _, _, _, _)
\* the loop without the emplace_back that follows it
CoalesceFromDropLast(list, n, rank, nprtcl, out, myrank) ==
  IF n >= Len0(list) THEN out
  ELSE IF list[n].dest_rank = rank
       THEN CoalesceFromDropLast(list, n + 1, rank, nprtcl + 1, out, myrank)
       ELSE CoalesceFromDropLast(list, n + 1, list[n].dest_rank, 1,
                                 Append0(out, <<myrank, rank, nprtcl>>), myrank)

RECURSIVE CoalesceFrom(_, _, _, _, _, _)
\* the loop over n = 1..nprtcl_send-1 and the emplace_back that follows it
CoalesceFrom(list, n, rank, nprtcl, out, myrank) ==
  IF n >= Len0(list) THEN Append0(out, <<myrank, rank, nprtcl>>)
  ELSE IF list[n].dest_rank = rank
       THEN CoalesceFrom(list, n + 1, rank, nprtcl + 1, out, myrank)
       ELSE CoalesceFrom(list, n + 1, list[n].dest_rank, 1,
                         Append0(out, <<myrank, rank, nprtcl>>), myrank)

\* the tuples built without the test nprtcl_send > 0: an empty list yields a
\* tuple of no particle
CoalesceNoGuard(list, myrank) ==
  IF Len0(list) > 0 THEN CoalesceFrom(list, 1, list[0].dest_rank, 1, Empty0, myrank)
  ELSE Append0(Empty0, <<myrank, myrank, 0>>)

\* sends_thisrank built from the sorted send list
Coalesce(list, myrank) ==
  IF Len0(list) > 0 THEN CoalesceFrom(list, 1, list[0].dest_rank, 1, Empty0, myrank)
  ELSE Empty0

\* sum of the particle counts of the first k tuples
RECURSIVE SumCounts(_, _)
SumCounts(f, k) == IF k <= 0 THEN 0 ELSE SumCounts(f, k - 1) + f[k - 1][3]

\* order of the tasks and blocking calls of one step
PcOrd(l) ==
  CASE l = "detect" -> 0 [] l = "count" -> 1 [] l = "bar1" -> 2 [] l = "gather" -> 3
    [] l = "bar2" -> 4 [] l = "bar3" -> 5 [] l = "gatherv" -> 6 [] l = "bar4" -> 7
    [] l = "recv" -> 8 [] l = "send" -> 9 [] l = "done" -> 10
    [] l = "recv_post" -> 8 [] l = "fence" -> 9 [] l = "send_post" -> 9
    [] l = "send_wait" -> 10 [] l = "recv_wait" -> 10 [] l = "exited" -> 11

\* every rank has reached label l: the barrier it names can be left.  Every
\* MPI call of the step returns MPI_SUCCESS.
AllReached(l) == \A q \in Ranks : PcOrd(pc[q]) >= PcOrd(l)

\* a sync to the device that copies nothing
SyncDevStale(h_view, d_view) == d_view

\* sendlist.sync<DevExeSpace>() after modify<HostMemSpace>(): the device view
\* takes the contents of the host view
SyncDev(h_view, d_view) == h_view

\* CountSendsAndRecvs on rank r up to the first barrier: host copy, sort,
\* sync to the device, tuples of this rank
CountLocal(r) ==
  /\ pc[r] = "count"
  /\ \E sl \in Sorted([n \in 0..(nprtcl_send[r] - 1) |-> sendlist_buf[r][n]]) :
       /\ sendlist' = [sendlist EXCEPT ![r] = sl]
       /\ sendlist_d' = [sendlist_d EXCEPT ![r] =
            SyncDev(sl, [n \in 0..(nprtcl_send[r] - 1) |-> sendlist_buf[r][n]])]
       /\ sends_thisrank' = [sends_thisrank EXCEPT ![r] = Coalesce(sl, r)]
       /\ nsends' = [nsends EXCEPT ![r] = Len0(Coalesce(sl, r))]
  /\ pc' = [pc EXCEPT ![r] = "bar1"]
  /\ UNCHANGED <<ppos, pgid, ppos0, pgid0, slot, sendlist_buf, nprtcl_send, lvars,
                 nsends_eachrank, sends_allranks, gath, gathv, xvars, fvars>>

\* rank r leaves the barrier and enters MPI_Allgather with its nsends
AllgatherEnter(r) ==
  /\ pc[r] = "bar1"
  /\ AllReached("bar1")
  /\ nsends_eachrank' = [nsends_eachrank EXCEPT ![r][r] = nsends[r]]
  /\ gath' = [gath EXCEPT ![r] = nsends[r]]
  /\ pc' = [pc EXCEPT ![r] = "gather"]
  /\ UNCHANGED <<ppos, pgid, ppos0, pgid0, slot, sendlist_buf, nprtcl_send, lvars,
                 sendlist, sendlist_d, sends_thisrank, nsends, sends_allranks, gathv, xvars, fvars>>

\* a gather that returns once the rank's own contribution is in
OwnContributed(r) == gath[r] >= 0

\* the receive buffer of MPI_Allgather on rank r can be filled: every rank has
\* entered the call with its contribution
AllContributed(r) == \A q \in Ranks : gath[q] >= 0

\* MPI_Allgather returns on rank r: every rank has contributed
AllgatherDone(r) ==
  /\ pc[r] = "gather"
  /\ AllContributed(r)
  /\ nsends_eachrank' = [nsends_eachrank EXCEPT ![r] = [q \in Ranks |-> gath[q]]]
  /\ pc' = [pc EXCEPT ![r] = "bar2"]
  /\ UNCHANGED <<ppos, pgid, ppos0, pgid0, slot, sendlist_buf, nprtcl_send, lvars,
                 sendlist, sendlist_d, sends_thisrank, nsends, sends_allranks, gath, gathv, xvars, fvars>>

RECURSIVE DisplShifted(_, _)
\* the displacement loop reading nsends_eachrank[n] instead of [n-1]
DisplShifted(each, n) == IF n = 0 THEN 0 ELSE DisplShifted(each, n - 1) + each[n]

RECURSIVE Displ(_, _)
\* nsends_displ[n]: starting index of the tuples of rank n in the full vector
Displ(each, n) == IF n = 0 THEN 0 ELSE Displ(each, n - 1) + each[n - 1]

\* nsends_allranks
NsendsAllranks(each) == Displ(each, NRanks - 1) + each[NRanks - 1]

\* rank r leaves the second barrier, builds nsends_displ and reaches the third
DisplDone(r) ==
  /\ pc[r] = "bar2"
  /\ AllReached("bar2")
  /\ pc' = [pc EXCEPT ![r] = "bar3"]
  /\ UNCHANGED <<ppos, pgid, ppos0, pgid0, slot, sendlist_buf, nprtcl_send, lvars,
                 cvars, xvars, fvars>>

\* the full vector resized, with the tuples of rank r loaded at its displacement
LoadOwn(r) ==
  [n \in 0..(NsendsAllranks(nsends_eachrank[r]) - 1) |->
     LET d == Displ(nsends_eachrank[r], r) IN
     IF d <= n /\ n < d + nsends_eachrank[r][r] THEN sends_thisrank[r][n - d]
     ELSE IF n \in DOMAIN sends_allranks[r] THEN sends_allranks[r][n]
     ELSE <<0, 0, 0>>]

\* rank r leaves the third barrier, loads its tuples into the full vector and
\* enters MPI_Allgatherv (MPI_IN_PLACE: its contribution is read from its own
\* block of the vector)
AllgathervEnter(r) ==
  /\ pc[r] = "bar3"
  /\ AllReached("bar3")
  /\ sends_allranks' = [sends_allranks EXCEPT ![r] = LoadOwn(r)]
  /\ gathv' = [gathv EXCEPT ![r] =
       [n \in 0..(nsends_eachrank[r][r] - 1) |->
          LET at == Displ(nsends_eachrank[r], r) + n IN
          IF at \in DOMAIN LoadOwn(r) THEN LoadOwn(r)[at] ELSE <<0, 0, 0>>]]
  /\ pc' = [pc EXCEPT ![r] = "gatherv"]
  /\ UNCHANGED <<ppos, pgid, ppos0, pgid0, slot, sendlist_buf, nprtcl_send, lvars,
                 sendlist, sendlist_d, sends_thisrank, nsends, nsends_eachrank, gath, xvars, fvars>>

\* the vector MPI_Allgatherv leaves on rank r: the contribution of rank q, of
\* recvcounts[q] tuples, stored from displs[q]
Gathered(r) ==
  [n \in DOMAIN sends_allranks[r] |->
     LET owners == {q \in Ranks :
            /\ Displ(nsends_eachrank[r], q) <= n
            /\ n < Displ(nsends_eachrank[r], q) + nsends_eachrank[r][q]}
     IN IF owners = {} THEN sends_allranks[r][n]
        ELSE LET q == CHOOSE q \in owners : \A o \in owners : q >= o
             IN gathv[q][n - Displ(nsends_eachrank[r], q)]]

\* MPI_Allgatherv returns on rank r: every rank has entered it
AllgathervDone(r) ==
  /\ pc[r] = "gatherv"
  /\ AllReached("gatherv")
  /\ sends_allranks' = [sends_allranks EXCEPT ![r] = Gathered(r)]
  /\ pc' = [pc EXCEPT ![r] = "bar4"]
  /\ UNCHANGED <<ppos, pgid, ppos0, pgid0, slot, sendlist_buf, nprtcl_send, lvars,
                 sendlist, sendlist_d, sends_thisrank, nsends, nsends_eachrank, gath, gathv, xvars, fvars>>

\* rank r leaves the last barrier: CountSendsAndRecvs returns complete
CountReturn(r) ==
  /\ pc[r] = "bar4"
  /\ AllReached("bar4")
  /\ pc' = [pc EXCEPT ![r] = "recv"]
  /\ UNCHANGED <<ppos, pgid, ppos0, pgid0, slot, sendlist_buf, nprtcl_send, lvars,
                 cvars, xvars, fvars>>

\* --------------------------------------------------------- receive initiator
SizeofParticleData == 28

RECURSIVE RecvFilterAny(_, _, _, _)
\* the scan keeping the tuples whose recvrank is not below this rank
RecvFilterAny(all, n, out, myrank) ==
  IF n >= Len0(all) THEN out
  ELSE RecvFilterAny(all, n + 1, IF all[n][2] >= myrank THEN Append0(out, all[n]) ELSE out,
                     myrank)

Prepend0(f, e) == [n \in 0..Len0(f) |-> IF n = 0 THEN e ELSE f[n - 1]]

RECURSIVE RecvFilterReversed(_, _, _, _)
\* the scan placing every tuple it keeps at the front of the list
RecvFilterReversed(all, n, out, myrank) ==
  IF n >= Len0(all) THEN out
  ELSE RecvFilterReversed(all, n + 1,
                          IF all[n][2] = myrank THEN Prepend0(out, all[n]) ELSE out, myrank)

RECURSIVE RecvFilter(_, _, _, _)
\* the scan of sends_allranks for tuples whose recvrank is this rank
RecvFilter(all, n, out, myrank) ==
  IF n >= Len0(all) THEN out
  ELSE RecvFilter(all, n + 1, IF all[n][2] = myrank THEN Append0(out, all[n]) ELSE out,
                  myrank)

\* the receive posted for a tuple, the source taken from its recvrank field
RecvOfDest(t, data_start) ==
  [source |-> t[2], data_start |-> data_start, data_end |-> data_start + t[3],
   data_size |-> t[3] * SizeofParticleData]

\* MPI_Irecv of one iteration: the source, the subview and the byte count
RecvOf(t, data_start) ==
  [source |-> t[1], data_start |-> data_start, data_end |-> data_start + t[3],
   data_size |-> t[3] * SizeofParticleData]

RECURSIVE PostRecvsButLast(_, _, _, _)
\* the loop posting the receives, stopping one tuple early
PostRecvsButLast(recvs, n, data_start, out) ==
  IF n + 1 >= Len0(recvs) THEN out
  ELSE PostRecvsButLast(recvs, n + 1, data_start,
                        Append0(out, RecvOf(recvs[n], data_start)))

RECURSIVE PostRecvs(_, _, _, _)
\* the loop posting the receives; data_start is not advanced in it
PostRecvs(recvs, n, data_start, out) ==
  IF n >= Len0(recvs) THEN out
  ELSE PostRecvs(recvs, n + 1, data_start, Append0(out, RecvOf(recvs[n], data_start)))

\* a ParticleData of a buffer that has just been reallocated
NullWire == [dest_gid |-> -1, x |-> <<0, 0, 0>>, v |-> <<0, 0, 0>>]

\* Kokkos::realloc(buf, n)
Realloc(n) == [k \in 0..(n - 1) |-> NullWire]

\* the requests of a list of posted operations: all of them active, none complete
Posted(reqs) == [n \in DOMAIN reqs |-> "pending"]

\* InitPrtclRecv on rank r
InitPrtclRecv(r) ==
  /\ pc[r] = "recv"
  /\ LET recvs == RecvFilter(sends_allranks[r], 0, Empty0, r) IN
     /\ recvs_thisrank' = [recvs_thisrank EXCEPT ![r] = recvs]
     /\ nrecvs' = [nrecvs EXCEPT ![r] = Len0(recvs)]
     /\ nprtcl_recv' = [nprtcl_recv EXCEPT ![r] = SumCounts(recvs, Len0(recvs))]
     /\ prtcl_recvbuf' = [prtcl_recvbuf EXCEPT ![r] = Realloc(SumCounts(recvs, Len0(recvs)))]
     /\ recv_req' = [recv_req EXCEPT ![r] = PostRecvs(recvs, 0, 0, Empty0)]
     /\ recv_stat' = [recv_stat EXCEPT ![r] = Posted(PostRecvs(recvs, 0, 0, Empty0))]
  /\ pc' = [pc EXCEPT ![r] = "send"]
  /\ UNCHANGED <<ppos, pgid, ppos0, pgid0, slot, sendlist_buf, nprtcl_send, lvars,
                 cvars, pvel, fvars, prtcl_sendbuf, send_req, send_stat, recv_cleared,
                 send_cleared>>

\* ------------------------------------------------------------ pack and send
Sub0(f, a, b) == [n \in 0..(b - a - 1) |-> f[a + n]]

\* the wire record of sorted position n, loaded from the device view
WireRec(r, n) ==
  LET p == sendlist_d[r][n].prtcl_indx IN
  [dest_gid |-> sendlist_d[r][n].dest_gid, x |-> ppos[r][p], v |-> pvel[r][p]]

\* MPI_Isend of one iteration: the destination, the subview and the byte count
SendOf(buf, t, data_start) ==
  [dest |-> t[2], data_start |-> data_start, data_end |-> data_start + t[3],
   data_size |-> t[3] * SizeofParticleData,
   data |-> Sub0(buf, data_start, data_start + t[3])]

RECURSIVE PostSends(_, _, _, _, _)
\* the loop posting the sends; data_start is not advanced in it
PostSends(buf, sends, n, data_start, out) ==
  IF n >= Len0(sends) THEN out
  ELSE PostSends(buf, sends, n + 1, data_start,
                 Append0(out, SendOf(buf, sends[n], data_start)))

\* PackAndSendPrtcls on rank r
PackAndSendPrtcls(r) ==
  /\ pc[r] = "send"
  /\ LET nps == SumCounts(sends_thisrank[r], nsends[r])
         buf == [n \in 0..(nps - 1) |-> WireRec(r, n)]
     IN /\ nprtcl_send' = [nprtcl_send EXCEPT ![r] = nps]
        /\ IF nps > 0
           THEN /\ prtcl_sendbuf' = [prtcl_sendbuf EXCEPT ![r] = buf]
                /\ send_req' = [send_req EXCEPT ![r] =
                     PostSends(buf, sends_thisrank[r], 0, 0, Empty0)]
                /\ send_stat' = [send_stat EXCEPT ![r] =
                     Posted(PostSends(buf, sends_thisrank[r], 0, 0, Empty0))]
           ELSE UNCHANGED <<prtcl_sendbuf, send_req, send_stat>>
  /\ pc' = [pc EXCEPT ![r] = "done"]
  /\ UNCHANGED <<ppos, pgid, ppos0, pgid0, slot, sendlist_buf, lvars, cvars, pvel, fvars,
                 recvs_thisrank, nrecvs, nprtcl_recv, recv_req, prtcl_recvbuf, recv_stat,
                 recv_cleared, send_cleared>>

\* ------------------------------------------------------ the exchange step
\* positions of the particles of rank r: inside its first block, past the
\* upper x3 face (into the layer of the next rank), or past the upper x1 and
\* lower x3 extents (into the layer of the previous rank)
StepPosition(r, kind) ==
  LET mb == MbSize(r, 0) IN
  CASE kind = "stay" -> <<mb.x1min + 1, mb.x2min + 1, mb.x3min + 1>>
    [] kind = "up"   -> <<mb.x1min + 1, mb.x2min + 1, mb.x3max + 1>>
    [] kind = "down" -> <<mb.x1max + 1, mb.x2min + 1, mb.x3min - 1>>

Prtcls == 0..(NPrtcl - 1)

\* the particles of rank r among NPrtcl particles handed out by owner
OwnedBy(owner, r) == {i \in Prtcls : owner[i] = r}

RECURSIVE Nth(_, _)
\* the i-th smallest element of a set of numbers
Nth(S, i) ==
  LET lo == CHOOSE a \in S : \A b \in S : a <= b IN
  IF i = 0 THEN lo ELSE Nth(S \ {lo}, i - 1)

\* NPrtcl particles, each on some rank, in the first block of that rank
Init ==
  \E owner \in [Prtcls -> Ranks] : \E kind \in [Prtcls -> {"stay", "up", "down"}] :
    /\ \A i, j \in Prtcls : i < j => owner[i] <= owner[j]
    /\ ppos = [r \in Ranks |->
         [p \in 0..(Cardinality(OwnedBy(owner, r)) - 1) |->
            StepPosition(r, kind[Nth(OwnedBy(owner, r), p)])]]
    /\ pc = [r \in Ranks |-> "detect"]
    /\ pgid = [r \in Ranks |-> [p \in 0..(Cardinality(OwnedBy(owner, r)) - 1) |-> Gids(r)]]
    /\ ppos0 = ppos
    /\ pgid0 = pgid
    /\ slot = [r \in Ranks |-> [p \in DOMAIN ppos[r] |-> NoSlot]]
    /\ sendlist_buf = [r \in Ranks |-> [p \in DOMAIN ppos[r] |-> NullRec]]
    /\ nprtcl_send = [r \in Ranks |-> 0]
    /\ NoLanes
    /\ NoExchange

Next ==
  \/ \E r \in Ranks : SetNewPrtclGID(r)
  \/ \E r \in Ranks : CountLocal(r)
  \/ \E r \in Ranks : AllgatherEnter(r)
  \/ \E r \in Ranks : AllgatherDone(r)
  \/ \E r \in Ranks : DisplDone(r)
  \/ \E r \in Ranks : AllgathervEnter(r)
  \/ \E r \in Ranks : AllgathervDone(r)
  \/ \E r \in Ranks : CountReturn(r)
  \/ \E r \in Ranks : InitPrtclRecv(r)
  \/ \E r \in Ranks : PackAndSendPrtcls(r)

Spec == Init /\ [][Next]_vars

\* ------------------------------------------------- request retirement
\* the sends rank s has posted to rank d, and the receives of rank d from
\* rank s that no message has matched yet
SendsTo(s, d) == {n \in DOMAIN send_stat[s] : send_req[s][n].dest = d}
OpenRecvs(s, d) ==
  {k \in DOMAIN recv_stat[d] : recv_req[d][k].source = s /\ recv_stat[d][k] = "pending"}
Matched(s, d) ==
  Cardinality({k \in DOMAIN recv_stat[d] :
                 recv_req[d][k].source = s /\ recv_stat[d][k] # "pending"})

\* the receive buffer after a message has been stored from data_start on
Store(buf, data_start, data) ==
  [i \in DOMAIN buf |->
     IF data_start <= i /\ i < data_start + Len0(data) THEN data[i - data_start]
     ELSE buf[i]]

\* the next message of rank s to rank d (messages of one sender to one
\* receiver do not overtake) matches the receive d posted first for source s
\* (MPI_ANY_TAG): the data is stored and both operations are complete
Deliver(s, d) ==
  /\ Cardinality(SendsTo(s, d)) > Matched(s, d)
  /\ OpenRecvs(s, d) # {}
  /\ LET n == Nth(SendsTo(s, d), Matched(s, d))
         k == Nth(OpenRecvs(s, d), 0)
     IN /\ recv_stat' = [recv_stat EXCEPT ![d][k] = "complete"]
        /\ prtcl_recvbuf' = [prtcl_recvbuf EXCEPT ![d] =
             Store(@, recv_req[d][k].data_start, send_req[s][n].data)]
        /\ send_stat' = [send_stat EXCEPT ![s][n] = IF @ = "pending" THEN "complete" ELSE @]
  /\ UNCHANGED <<dvars, lvars, cvars, pvel, fvars, recvs_thisrank, nrecvs, nprtcl_recv, recv_req,
                 prtcl_sendbuf, send_req, recv_cleared, send_cleared>>

\* a send completes before its message is matched (the message was buffered)
SendBuffered(s, n) ==
  /\ n \in DOMAIN send_stat[s]
  /\ send_stat[s][n] = "pending"
  /\ send_stat' = [send_stat EXCEPT ![s][n] = "complete"]
  /\ UNCHANGED <<dvars, lvars, cvars, pvel, fvars, recvs_thisrank, nrecvs, nprtcl_recv, recv_req,
                 prtcl_sendbuf, send_req, prtcl_recvbuf, recv_stat, recv_cleared,
                 send_cleared>>

\* a wait that returns whether or not the operation has completed
TestReturns(stat, n) == TRUE

\* MPI_Wait returns for requests 0..n-1: none of them is still pending
WaitReturns(stat, n) == \A k \in 0..(n - 1) : stat[k] # "pending"

\* the requests after MPI_Wait has returned for requests 0..n-1
Waited(stat, n) ==
  [k \in DOMAIN stat |-> IF k < n /\ stat[k] # "pending" THEN "null" ELSE stat[k]]

\* ClearPrtclSend on rank r
ClearPrtclSend(r) ==
  /\ pc[r] = "done"
  /\ ~send_cleared[r]
  /\ WaitReturns(send_stat[r], nsends[r])
  /\ send_stat' = [send_stat EXCEPT ![r] = Waited(@, nsends[r])]
  /\ send_cleared' = [send_cleared EXCEPT ![r] = TRUE]
  /\ UNCHANGED <<dvars, lvars, cvars, pvel, fvars, recvs_thisrank, nrecvs, nprtcl_recv, recv_req,
                 prtcl_sendbuf, send_req, prtcl_recvbuf, recv_stat, recv_cleared>>

\* ClearPrtclRecv on rank r
ClearPrtclRecv(r) ==
  /\ pc[r] = "done"
  /\ ~recv_cleared[r]
  /\ WaitReturns(recv_stat[r], nrecvs[r])
  /\ recv_stat' = [recv_stat EXCEPT ![r] = Waited(@, nrecvs[r])]
  /\ recv_cleared' = [recv_cleared EXCEPT ![r] = TRUE]
  /\ UNCHANGED <<dvars, lvars, cvars, pvel, fvars, recvs_thisrank, nrecvs, nprtcl_recv, recv_req,
                 prtcl_sendbuf, send_req, prtcl_recvbuf, send_stat, send_cleared>>

\* order in which the kinds of the particles of one rank are listed
KindOrd(k) == CASE k = "stay" -> 0 [] k = "up" -> 1 [] k = "down" -> 2

\* the rank above rank 1: with rank 0 the two neighbors of rank 1
FarRank == (1 + 1) % NRanks

\* NPrtcl particles in the first block of their rank: all of them on rank 0,
\* or the last one on FarRank and leaving it toward rank 1.  The particles of
\* rank 0 are listed by kind; the detector records them in any order.
InitClear ==
  \E far \in BOOLEAN : \E kind \in [Prtcls -> {"stay", "up", "down"}] :
    LET owner == [i \in Prtcls |-> IF far /\ i = NPrtcl - 1 THEN FarRank ELSE 0] IN
    /\ far => kind[NPrtcl - 1] = "down"
    /\ \A i, j \in Prtcls :
         (i < j /\ owner[i] = owner[j]) => KindOrd(kind[i]) <= KindOrd(kind[j])
    /\ ppos = [r \in Ranks |->
         [p \in 0..(Cardinality(OwnedBy(owner, r)) - 1) |->
            StepPosition(r, kind[Nth(OwnedBy(owner, r), p)])]]
    /\ pc = [r \in Ranks |-> "detect"]
    /\ pgid = [r \in Ranks |-> [p \in 0..(Cardinality(OwnedBy(owner, r)) - 1) |-> Gids(r)]]
    /\ ppos0 = ppos
    /\ pgid0 = pgid
    /\ slot = [r \in Ranks |-> [p \in DOMAIN ppos[r] |-> NoSlot]]
    /\ sendlist_buf = [r \in Ranks |-> [p \in DOMAIN ppos[r] |-> NullRec]]
    /\ nprtcl_send = [r \in Ranks |-> 0]
    /\ NoLanes
    /\ NoExchange

\* NPrtcl particles, each on rank 0 or on FarRank, in the first block of its
\* rank, staying or leaving toward either neighboring rank
InitPost ==
  \E owner \in [Prtcls -> {0, FarRank}] : \E kind \in [Prtcls -> {"stay", "up", "down"}] :
    /\ \A i, j \in Prtcls : i < j => owner[i] <= owner[j]
    /\ ppos = [r \in Ranks |->
         [p \in 0..(Cardinality(OwnedBy(owner, r)) - 1) |->
            StepPosition(r, kind[Nth(OwnedBy(owner, r), p)])]]
    /\ pc = [r \in Ranks |-> "detect"]
    /\ pgid = [r \in Ranks |-> [p \in 0..(Cardinality(OwnedBy(owner, r)) - 1) |-> Gids(r)]]
    /\ ppos0 = ppos
    /\ pgid0 = pgid
    /\ slot = [r \in Ranks |-> [p \in DOMAIN ppos[r] |-> NoSlot]]
    /\ sendlist_buf = [r \in Ranks |-> [p \in DOMAIN ppos[r] |-> NullRec]]
    /\ nprtcl_send = [r \in Ranks |-> 0]
    /\ NoLanes
    /\ NoExchange

\* the step up to the posting of its receives and sends
SpecPost == InitPost /\ [][Next]_vars

\* the step with its requests retired
NextClear ==
  \/ Next
  \/ \E s, d \in Ranks : Deliver(s, d)
  \/ \E s \in Ranks : \E n \in 0..(NPrtcl - 1) : SendBuffered(s, n)
  \/ \E r \in Ranks : ClearPrtclSend(r)
  \/ \E r \in Ranks : ClearPrtclRecv(r)

SpecClear == InitClear /\ [][NextClear]_vars

\* ------------------------------------------------- the step run to its end
\* one particle on each of the first NPrtcl ranks, in the first block of its
\* rank and leaving it toward either neighboring rank
LiveRanks == 0..(NPrtcl - 1)

InitLive ==
  \E kind \in [LiveRanks -> {"up", "down"}] :
    /\ ppos = [r \in Ranks |->
         IF r \in LiveRanks THEN [p \in {0} |-> StepPosition(r, kind[r])] ELSE Empty0]
    /\ pc = [r \in Ranks |-> "detect"]
    /\ pgid = [r \in Ranks |-> [p \in DOMAIN ppos[r] |-> Gids(r)]]
    /\ ppos0 = ppos
    /\ pgid0 = pgid
    /\ slot = [r \in Ranks |-> [p \in DOMAIN ppos[r] |-> NoSlot]]
    /\ sendlist_buf = [r \in Ranks |-> [p \in DOMAIN ppos[r] |-> NullRec]]
    /\ nprtcl_send = [r \in Ranks |-> 0]
    /\ NoLanes
    /\ NoExchange

\* the tasks of rank r, in the order of the step
RankStep(r) ==
  \/ SetNewPrtclGID(r)
  \/ CountLocal(r)
  \/ AllgatherEnter(r)
  \/ AllgatherDone(r)
  \/ DisplDone(r)
  \/ AllgathervEnter(r)
  \/ AllgathervDone(r)
  \/ CountReturn(r)
  \/ InitPrtclRecv(r)
  \/ PackAndSendPrtcls(r)
  \/ ClearPrtclSend(r)
  \/ ClearPrtclRecv(r)

\* a message whose send and receive are both posted is transferred
Transfer == \E s, d \in Ranks : Deliver(s, d)

\* every rank keeps running its tasks and MPI transfers every message that has
\* a matching receive; a send may or may not complete before it is matched
SpecLive ==
  /\ InitLive
  /\ [][NextClear]_vars
  /\ \A r \in Ranks : WF_vars(RankStep(r))
  /\ WF_vars(Transfer)

\* -------------------------------------------------------- step after step
\* the particles of rank r whose owning-block id is not one of the blocks of
\* the rank: m = pgid(p) - gids is then no index of mb_size and nghbr
OutOfRange(r) ==
  {p \in DOMAIN pgid[r] :
     ~(0 <= pgid[r][p] - Gids(r) /\ pgid[r][p] - Gids(r) < NmbPerRank)}
InRange(r) == OutOfRange(r) = {}

\* what a read of nghbr.d_view(m, s) past the end of the view may return, and
\* the mark of a particle that reads of mb_size past its end left alone
GarbageNghbr == {NoBlock} \cup {[gid |-> Gids(q), rank |-> q] : q \in Ranks}
NoCall == [gid |-> -2, rank |-> -2]
\* the slot read for a particle whose extents were read past the end of mb_size
SlotUnknown == 57

\* SetNewPrtclGID on a rank that stores particles with an id out of range: the
\* reads past the end of the views are undefined. The process crashes, or the
\* kernel goes on with what the reads returned: each such particle is left
\* alone or handed to UpdateGID with some neighbor entry.
DetectOutOfRange(r) ==
  /\ pc[r] = "detect"
  /\ ~InRange(r)
  /\ \/ /\ pc' = [pc EXCEPT ![r] = "exited"]
        /\ UNCHANGED <<ppos, pgid, ppos0, pgid0, slot, sendlist_buf, nprtcl_send>>
     \/ \E nb \in [OutOfRange(r) -> GarbageNghbr \cup {NoCall}] :
          LET Called(p) == IF p \in OutOfRange(r) THEN nb[p] # NoCall
                           ELSE SlotOf(r, pgid[r][p], ppos[r][p]) # NoSlot
              Nb(p) == IF p \in OutOfRange(r) THEN nb[p]
                       ELSE Nghbr(r, pgid[r][p] - Gids(r), SlotOf(r, pgid[r][p], ppos[r][p]))
              dep == {p \in DOMAIN ppos[r] : Called(p) /\ Nb(p).rank # r}
          IN /\ \E ord \in Orders(dep) :
                  sendlist_buf' = [sendlist_buf EXCEPT ![r] =
                    [n \in DOMAIN ppos[r] |->
                       IF n < Cardinality(dep)
                       THEN [prtcl_indx |-> ord[n], dest_gid |-> Nb(ord[n]).gid,
                             dest_rank |-> Nb(ord[n]).rank]
                       ELSE sendlist_buf[r][n]]]
             /\ nprtcl_send' = [nprtcl_send EXCEPT ![r] = Cardinality(dep)]
             /\ pgid' = [pgid EXCEPT ![r] =
                  [p \in DOMAIN ppos[r] |-> IF Called(p) THEN Nb(p).gid ELSE pgid[r][p]]]
             /\ slot' = [slot EXCEPT ![r] =
                  [p \in DOMAIN ppos[r] |->
                     IF p \in OutOfRange(r)
                     THEN (IF Called(p) THEN SlotUnknown ELSE NoSlot)
                     ELSE SlotOf(r, pgid[r][p], ppos[r][p])]]
             /\ ppos' = [ppos EXCEPT ![r] = [p \in DOMAIN ppos[r] |-> WrapPos(ppos[r][p])]]
             /\ pc' = [pc EXCEPT ![r] = "count"]
             /\ UNCHANGED <<ppos0, pgid0>>
  /\ UNCHANGED <<lvars, cvars, xvars, fvars>>

\* every rank has returned from both retirement tasks
StepDone == \A r \in Ranks : pc[r] = "done" /\ send_cleared[r] /\ recv_cleared[r]

\* the next step begins: the particles a rank stores in one of its blocks have
\* been pushed, each staying in the block or leaving it; nothing has removed a
\* particle from the arrays of its rank or added one (RecvAndUnpackParticles
\* is not compiled), and the members of the exchange are as the last step left them
NextStep ==
  /\ StepDone
  /\ nstep < NSteps - 1
  /\ \E kind \in [Ranks -> [Prtcls -> {"stay", "up", "down"}]] :
       /\ \A r \in Ranks : \A p \in Prtcls :
            (p \notin DOMAIN ppos[r] \/ p \in OutOfRange(r)) => kind[r][p] = "stay"
       /\ ppos' = [r \in Ranks |->
            [p \in DOMAIN ppos[r] |->
               IF p \in OutOfRange(r) THEN ppos[r][p] ELSE StepPosition(r, kind[r][p])]]
  /\ ppos0' = ppos'
  /\ pgid0' = pgid
  /\ slot' = [r \in Ranks |-> [p \in DOMAIN ppos[r] |-> NoSlot]]
  /\ pc' = [r \in Ranks |-> "detect"]
  /\ send_cleared' = [r \in Ranks |-> FALSE]
  /\ recv_cleared' = [r \in Ranks |-> FALSE]
  /\ gath' = [r \in Ranks |-> -1]
  /\ nstep' = nstep + 1
  /\ UNCHANGED <<pgid, sendlist_buf, nprtcl_send, lvars, sendlist, sendlist_d,
                 sends_thisrank, nsends, nsends_eachrank, sends_allranks, gathv, pvel,
                 recvs_thisrank, nrecvs, nprtcl_recv, recv_req, prtcl_sendbuf, send_req,
                 prtcl_recvbuf, recv_stat, send_stat, periodic, no_errors, ierrs, pack_pc>>

\* one particle, stored in the first block of rank 0
InitSteps ==
  \E kind \in {"stay", "up", "down"} :
    /\ ppos = [r \in Ranks |->
         IF r = 0 THEN [p \in {0} |-> StepPosition(r, kind)] ELSE Empty0]
    /\ pc = [r \in Ranks |-> "detect"]
    /\ pgid = [r \in Ranks |-> [p \in DOMAIN ppos[r] |-> Gids(r)]]
    /\ ppos0 = ppos
    /\ pgid0 = pgid
    /\ slot = [r \in Ranks |-> [p \in DOMAIN ppos[r] |-> NoSlot]]
    /\ sendlist_buf = [r \in Ranks |-> [p \in DOMAIN ppos[r] |-> NullRec]]
    /\ nprtcl_send = [r \in Ranks |-> 0]
    /\ NoLanes
    /\ NoExchange

\* NSteps steps, each run to the return of both retirement tasks on every rank
NextSteps ==
  \/ \E r \in Ranks : InRange(r) /\ SetNewPrtclGID(r)
  \/ \E r \in Ranks : DetectOutOfRange(r)
  \/ \E r \in Ranks : CountLocal(r)
  \/ \E r \in Ranks : AllgatherEnter(r)
  \/ \E r \in Ranks : AllgatherDone(r)
  \/ \E r \in Ranks : DisplDone(r)
  \/ \E r \in Ranks : AllgathervEnter(r)
  \/ \E r \in Ranks : AllgathervDone(r)
  \/ \E r \in Ranks : CountReturn(r)
  \/ \E r \in Ranks : InitPrtclRecv(r)
  \/ \E r \in Ranks : PackAndSendPrtcls(r)
  \/ \E s, d \in Ranks : Deliver(s, d)
  \/ \E s \in Ranks : \E n \in 0..(NPrtcl - 1) : SendBuffered(s, n)
  \/ \E r \in Ranks : ClearPrtclSend(r)
  \/ \E r \in Ranks : ClearPrtclRecv(r)
  \/ NextStep

SpecSteps == InitSteps /\ [][NextSteps]_vars

\* ---------------------------------------- send list of one rank, any order
\* NDepart particles on the last rank, each staying or leaving toward either
\* neighboring rank; the detector and the local part of CountSendsAndRecvs
CountRank == NRanks - 1

InitCount ==
  \E kind \in [0..(NDepart - 1) -> {"stay", "up", "down"}] :
    /\ pc = [r \in Ranks |-> "detect"]
    /\ ppos = [r \in Ranks |->
         IF r = CountRank THEN [p \in 0..(NDepart - 1) |-> StepPosition(r, kind[p])]
         ELSE Empty0]
    /\ pgid = [r \in Ranks |-> [p \in DOMAIN ppos[r] |-> Gids(r)]]
    /\ ppos0 = ppos
    /\ pgid0 = pgid
    /\ slot = [r \in Ranks |-> [p \in DOMAIN ppos[r] |-> NoSlot]]
    /\ sendlist_buf = [r \in Ranks |-> [p \in DOMAIN ppos[r] |-> NullRec]]
    /\ nprtcl_send = [r \in Ranks |-> 0]
    /\ NoLanes
    /\ NoExchange

NextCount ==
  \/ \E r \in Ranks : SetNewPrtclGID(r)
  \/ \E r \in Ranks : CountLocal(r)

SpecCount == InitCount /\ [][NextCount]_vars

\* ------------------------------------- the tasks statement by statement
\* what an MPI call returns
MPI_SUCCESS == "MPI_SUCCESS"
MPI_ERR == "MPI_ERR"
IerrValues == {MPI_SUCCESS, MPI_ERR}

\* entries of recv_req and send_req that hold MPI_REQUEST_NULL
NullRecv == [source |-> -1, data_start |-> 0, data_end |-> 0, data_size |-> 0]
NullSend == [dest |-> -1, data_start |-> 0, data_end |-> 0, data_size |-> 0, data |-> Empty0]

\* if (ierr != MPI_SUCCESS) {no_errors=false;}
NoErrorsAfter(ne, ierr) == IF ierr # MPI_SUCCESS THEN FALSE ELSE ne

\* a task that returns complete whatever its MPI calls returned
ReturnComplete(ne, next) == next

\* the end of a task: std::exit if an MPI call failed, else return
\* TaskStatus::complete and go on with the task next
QuitIfError(ne, next) == IF ~ne THEN "exited" ELSE next

\* InitPrtclRecv up to its posting loop
RecvBegin(r) ==
  /\ pc[r] = "recv"
  /\ LET recvs == RecvFilter(sends_allranks[r], 0, Empty0, r) IN
     /\ recvs_thisrank' = [recvs_thisrank EXCEPT ![r] = recvs]
     /\ nrecvs' = [nrecvs EXCEPT ![r] = Len0(recvs)]
     /\ nprtcl_recv' = [nprtcl_recv EXCEPT ![r] = SumCounts(recvs, Len0(recvs))]
     /\ prtcl_recvbuf' = [prtcl_recvbuf EXCEPT ![r] = Realloc(SumCounts(recvs, Len0(recvs)))]
     /\ recv_req' = [recv_req EXCEPT ![r] = [n \in DOMAIN recvs |-> NullRecv]]
     /\ recv_stat' = [recv_stat EXCEPT ![r] = [n \in DOMAIN recvs |-> "null"]]
  /\ no_errors' = [no_errors EXCEPT ![r] = TRUE]
  /\ ierrs' = [ierrs EXCEPT ![r] = Empty0]
  /\ pc' = [pc EXCEPT ![r] = "recv_post"]
  /\ UNCHANGED <<ppos, pgid, ppos0, pgid0, slot, sendlist_buf, nprtcl_send, lvars,
                 cvars, pvel, periodic, nstep, pack_pc, prtcl_sendbuf, send_req, send_stat,
                 recv_cleared, send_cleared>>

\* one iteration of the loop posting the receives: MPI_Irecv returns ierr
RecvPost(r, ierr) ==
  /\ pc[r] = "recv_post"
  /\ Len0(ierrs[r]) < nrecvs[r]
  /\ LET n == Len0(ierrs[r]) IN
     IF ierr = MPI_SUCCESS
     THEN /\ recv_req' = [recv_req EXCEPT ![r][n] = RecvOf(recvs_thisrank[r][n], 0)]
          /\ recv_stat' = [recv_stat EXCEPT ![r][n] = "pending"]
     ELSE UNCHANGED <<recv_req, recv_stat>>
  /\ no_errors' = [no_errors EXCEPT ![r] = NoErrorsAfter(@, ierr)]
  /\ ierrs' = [ierrs EXCEPT ![r] = Append0(@, ierr)]
  /\ UNCHANGED <<dvars, lvars, cvars, pvel, periodic, nstep, pack_pc, recvs_thisrank, nrecvs,
                 nprtcl_recv, prtcl_sendbuf, send_req, prtcl_recvbuf, send_stat,
                 recv_cleared, send_cleared>>

\* the end of InitPrtclRecv
RecvEnd(r) ==
  /\ pc[r] = "recv_post"
  /\ Len0(ierrs[r]) >= nrecvs[r]
  /\ pc' = [pc EXCEPT ![r] = QuitIfError(no_errors[r], "send")]
  /\ UNCHANGED <<ppos, pgid, ppos0, pgid0, slot, sendlist_buf, nprtcl_send, lvars,
                 cvars, xvars, fvars>>

\* PackAndSendPrtcls up to the launch of the packing kernel
PackBegin(r) ==
  /\ pc[r] = "send"
  /\ no_errors' = [no_errors EXCEPT ![r] = TRUE]
  /\ ierrs' = [ierrs EXCEPT ![r] = Empty0]
  /\ LET nps == SumCounts(sends_thisrank[r], nsends[r]) IN
     /\ nprtcl_send' = [nprtcl_send EXCEPT ![r] = nps]
     /\ IF nps > 0
        THEN /\ prtcl_sendbuf' = [prtcl_sendbuf EXCEPT ![r] = Realloc(nps)]
             /\ pack_pc' = [pack_pc EXCEPT ![r] = [n \in 0..(nps - 1) |-> "run"]]
             /\ pc' = [pc EXCEPT ![r] = "fence"]
        ELSE /\ pc' = [pc EXCEPT ![r] = QuitIfError(TRUE, "done")]
             /\ UNCHANGED <<prtcl_sendbuf, pack_pc>>
  /\ UNCHANGED <<ppos, pgid, ppos0, pgid0, slot, sendlist_buf, lvars, cvars, pvel,
                 periodic, nstep, recvs_thisrank, nrecvs, nprtcl_recv, recv_req, send_req,
                 prtcl_recvbuf, recv_stat, send_stat, recv_cleared, send_cleared>>

\* lane n of the packing kernel writes wire record n
PackLane(r, n) ==
  /\ n \in DOMAIN pack_pc[r]
  /\ pack_pc[r][n] = "run"
  /\ prtcl_sendbuf' = [prtcl_sendbuf EXCEPT ![r][n] = WireRec(r, n)]
  /\ pack_pc' = [pack_pc EXCEPT ![r][n] = "done"]
  /\ UNCHANGED <<dvars, lvars, cvars, pvel, periodic, nstep, no_errors, ierrs, recvs_thisrank,
                 nrecvs, nprtcl_recv, recv_req, send_req, prtcl_recvbuf, recv_stat,
                 send_stat, recv_cleared, send_cleared>>

\* a fence that returns while lanes are still running
FenceSkipped(lanes) == TRUE

\* Kokkos::fence() returns once every lane launched before it has finished
FenceReturns(lanes) == \A n \in DOMAIN lanes : lanes[n] = "done"

\* the fence and the statements up to the loop posting the sends
Fence(r) ==
  /\ pc[r] = "fence"
  /\ FenceReturns(pack_pc[r])
  /\ send_req' = [send_req EXCEPT ![r] = [n \in 0..(nsends[r] - 1) |-> NullSend]]
  /\ send_stat' = [send_stat EXCEPT ![r] = [n \in 0..(nsends[r] - 1) |-> "null"]]
  /\ pc' = [pc EXCEPT ![r] = "send_post"]
  /\ UNCHANGED <<ppos, pgid, ppos0, pgid0, slot, sendlist_buf, nprtcl_send, lvars,
                 cvars, pvel, fvars, recvs_thisrank, nrecvs, nprtcl_recv, recv_req,
                 prtcl_sendbuf, prtcl_recvbuf, recv_stat, recv_cleared, send_cleared>>

\* one iteration of the loop posting the sends: MPI_Isend returns ierr
SendPost(r, ierr) ==
  /\ pc[r] = "send_post"
  /\ Len0(ierrs[r]) < nsends[r]
  /\ LET n == Len0(ierrs[r]) IN
     IF ierr = MPI_SUCCESS
     THEN /\ send_req' = [send_req EXCEPT ![r][n] =
               SendOf(prtcl_sendbuf[r], sends_thisrank[r][n], 0)]
          /\ send_stat' = [send_stat EXCEPT ![r][n] = "pending"]
     ELSE UNCHANGED <<send_req, send_stat>>
  /\ no_errors' = [no_errors EXCEPT ![r] = NoErrorsAfter(@, ierr)]
  /\ ierrs' = [ierrs EXCEPT ![r] = Append0(@, ierr)]
  /\ UNCHANGED <<dvars, lvars, cvars, pvel, periodic, nstep, pack_pc, recvs_thisrank, nrecvs,
                 nprtcl_recv, recv_req, prtcl_sendbuf, prtcl_recvbuf, recv_stat,
                 recv_cleared, send_cleared>>

\* the end of PackAndSendPrtcls
SendEnd(r) ==
  /\ pc[r] = "send_post"
  /\ Len0(ierrs[r]) >= nsends[r]
  /\ pc' = [pc EXCEPT ![r] = QuitIfError(no_errors[r], "done")]
  /\ UNCHANGED <<ppos, pgid, ppos0, pgid0, slot, sendlist_buf, nprtcl_send, lvars,
                 cvars, xvars, fvars>>

\* ClearPrtclSend up to its loop
ClearSendBegin(r) ==
  /\ pc[r] = "done"
  /\ ~send_cleared[r]
  /\ no_errors' = [no_errors EXCEPT ![r] = TRUE]
  /\ ierrs' = [ierrs EXCEPT ![r] = Empty0]
  /\ pc' = [pc EXCEPT ![r] = "send_wait"]
  /\ UNCHANGED <<ppos, pgid, ppos0, pgid0, slot, sendlist_buf, nprtcl_send, lvars,
                 cvars, xvars, periodic, nstep, pack_pc>>

\* MPI_Wait on one request returns MPI_SUCCESS: the request is not pending
WaitOne(stat, n) == stat[n] # "pending"

\* one iteration of the loop of ClearPrtclSend: MPI_Wait returns ierr, with
\* MPI_SUCCESS once the send has completed
SendWait(r, ierr) ==
  /\ pc[r] = "send_wait"
  /\ Len0(ierrs[r]) < nsends[r]
  /\ LET n == Len0(ierrs[r]) IN
     IF ierr = MPI_SUCCESS
     THEN /\ WaitOne(send_stat[r], n)
          /\ send_stat' = [send_stat EXCEPT ![r][n] = "null"]
     ELSE UNCHANGED send_stat
  /\ no_errors' = [no_errors EXCEPT ![r] = NoErrorsAfter(@, ierr)]
  /\ ierrs' = [ierrs EXCEPT ![r] = Append0(@, ierr)]
  /\ UNCHANGED <<dvars, lvars, cvars, pvel, periodic, nstep, pack_pc, recvs_thisrank, nrecvs,
                 nprtcl_recv, recv_req, prtcl_sendbuf, send_req, prtcl_recvbuf, recv_stat,
                 recv_cleared, send_cleared>>

\* the end of ClearPrtclSend
ClearSendEnd(r) ==
  /\ pc[r] = "send_wait"
  /\ Len0(ierrs[r]) >= nsends[r]
  /\ pc' = [pc EXCEPT ![r] = QuitIfError(no_errors[r], "done")]
  /\ send_cleared' = [send_cleared EXCEPT ![r] = no_errors[r]]
  /\ UNCHANGED <<ppos, pgid, ppos0, pgid0, slot, sendlist_buf, nprtcl_send, lvars,
                 cvars, pvel, fvars, recvs_thisrank, nrecvs, nprtcl_recv, recv_req,
                 prtcl_sendbuf, send_req, prtcl_recvbuf, recv_stat, send_stat,
                 recv_cleared>>

\* ClearPrtclRecv up to its loop
ClearRecvBegin(r) ==
  /\ pc[r] = "done"
  /\ ~recv_cleared[r]
  /\ no_errors' = [no_errors EXCEPT ![r] = TRUE]
  /\ ierrs' = [ierrs EXCEPT ![r] = Empty0]
  /\ pc' = [pc EXCEPT ![r] = "recv_wait"]
  /\ UNCHANGED <<ppos, pgid, ppos0, pgid0, slot, sendlist_buf, nprtcl_send, lvars,
                 cvars, xvars, periodic, nstep, pack_pc>>

\* one iteration of the loop of ClearPrtclRecv
RecvWait(r, ierr) ==
  /\ pc[r] = "recv_wait"
  /\ Len0(ierrs[r]) < nrecvs[r]
  /\ LET n == Len0(ierrs[r]) IN
     IF ierr = MPI_SUCCESS
     THEN /\ WaitOne(recv_stat[r], n)
          /\ recv_stat' = [recv_stat EXCEPT ![r][n] = "null"]
     ELSE UNCHANGED recv_stat
  /\ no_errors' = [no_errors EXCEPT ![r] = NoErrorsAfter(@, ierr)]
  /\ ierrs' = [ierrs EXCEPT ![r] = Append0(@, ierr)]
  /\ UNCHANGED <<dvars, lvars, cvars, pvel, periodic, nstep, pack_pc, recvs_thisrank, nrecvs,
                 nprtcl_recv, recv_req, prtcl_sendbuf, send_req, prtcl_recvbuf, send_stat,
                 recv_cleared, send_cleared>>

\* the end of ClearPrtclRecv
ClearRecvEnd(r) ==
  /\ pc[r] = "recv_wait"
  /\ Len0(ierrs[r]) >= nrecvs[r]
  /\ pc' = [pc EXCEPT ![r] = QuitIfError(no_errors[r], "done")]
  /\ recv_cleared' = [recv_cleared EXCEPT ![r] = no_errors[r]]
  /\ UNCHANGED <<ppos, pgid, ppos0, pgid0, slot, sendlist_buf, nprtcl_send, lvars,
                 cvars, pvel, fvars, recvs_thisrank, nrecvs, nprtcl_recv, recv_req,
                 prtcl_sendbuf, send_req, prtcl_recvbuf, recv_stat, send_stat,
                 send_cleared>>

\* the rank whose tasks are followed statement by statement: rank 0 and
\* FarRank are its two neighbors
FineRank == 1 % NRanks
OtherRanks == Ranks \ {FineRank}

\* the step with the posting, packing and retirement tasks of FineRank run
\* statement by statement and every MPI call of theirs free to fail; the
\* other ranks run the step up to the posting of their receives and sends,
\* each task as a whole and their MPI calls succeeding
NextFine ==
  \/ \E r \in Ranks : SetNewPrtclGID(r)
  \/ \E r \in Ranks : CountLocal(r)
  \/ \E r \in Ranks : AllgatherEnter(r)
  \/ \E r \in Ranks : AllgatherDone(r)
  \/ \E r \in Ranks : DisplDone(r)
  \/ \E r \in Ranks : AllgathervEnter(r)
  \/ \E r \in Ranks : AllgathervDone(r)
  \/ \E r \in Ranks : CountReturn(r)
  \/ \E r \in OtherRanks : InitPrtclRecv(r)
  \/ \E r \in OtherRanks : PackAndSendPrtcls(r)
  \/ \E s, d \in Ranks : Deliver(s, d)
  \/ \E n \in 0..(NPrtcl - 1) : SendBuffered(FineRank, n)
  \/ RecvBegin(FineRank)
  \/ \E ierr \in IerrValues : RecvPost(FineRank, ierr)
  \/ RecvEnd(FineRank)
  \/ PackBegin(FineRank)
  \/ \E n \in 0..(NPrtcl - 1) : PackLane(FineRank, n)
  \/ Fence(FineRank)
  \/ \E ierr \in IerrValues : SendPost(FineRank, ierr)
  \/ SendEnd(FineRank)
  \/ ClearSendBegin(FineRank)
  \/ \E ierr \in IerrValues : SendWait(FineRank, ierr)
  \/ ClearSendEnd(FineRank)
  \/ ClearRecvBegin(FineRank)
  \/ \E ierr \in IerrValues : RecvWait(FineRank, ierr)
  \/ ClearRecvEnd(FineRank)

\* NPrtcl particles in the first block of their rank, all of them leaving it:
\* those of rank 0 toward FineRank from below, those of FarRank from above,
\* those of FineRank toward either neighbor
InitFine ==
  \E owner \in [Prtcls -> {0, FineRank, FarRank}] :
  \E kind \in [Prtcls -> {"up", "down"}] :
    /\ \A i, j \in Prtcls : i < j => owner[i] <= owner[j]
    /\ \A i, j \in Prtcls :
         (i < j /\ owner[i] = owner[j]) => KindOrd(kind[i]) <= KindOrd(kind[j])
    /\ \A i \in Prtcls :
         owner[i] # FineRank => kind[i] = (IF owner[i] < FineRank THEN "up" ELSE "down")
    /\ ppos = [r \in Ranks |->
         [p \in 0..(Cardinality(OwnedBy(owner, r)) - 1) |->
            StepPosition(r, kind[Nth(OwnedBy(owner, r), p)])]]
    /\ pc = [r \in Ranks |-> "detect"]
    /\ pgid = [r \in Ranks |-> [p \in 0..(Cardinality(OwnedBy(owner, r)) - 1) |-> Gids(r)]]
    /\ ppos0 = ppos
    /\ pgid0 = pgid
    /\ slot = [r \in Ranks |-> [p \in DOMAIN ppos[r] |-> NoSlot]]
    /\ sendlist_buf = [r \in Ranks |-> [p \in DOMAIN ppos[r] |-> NullRec]]
    /\ nprtcl_send = [r \in Ranks |-> 0]
    /\ NoLanes
    /\ NoExchange

SpecFine == InitFine /\ [][NextFine]_vars

\* ------------------------------------------------------- detector claims
Side(x, lo, hi) == IF x < lo THEN -1 ELSE IF x > hi THEN 1 ELSE 0

\* where particle p of rank r stood against its owning block when the detector ran
Sides(r, p) ==
  LET mb == MbSize(r, pgid0[r][p] - Gids(r))
      x == ppos0[r][p]
  IN <<Side(x[1], mb.x1min, mb.x1max), Side(x[2], mb.x2min, mb.x2max),
       Side(x[3], mb.x3min, mb.x3max)>>

NAxesOut(d) ==
  (IF d[1] # 0 THEN 1 ELSE 0) + (IF d[2] # 0 THEN 1 ELSE 0) + (IF d[3] # 0 THEN 1 ELSE 0)

Up(s) == IF s > 0 THEN 1 ELSE 0

\* the particles the detector of their rank has processed
Detected ==
  {rp \in Ranks \X UNION {DOMAIN ppos0[r] : r \in Ranks} :
     pc[rp[1]] # "detect" /\ rp[2] \in DOMAIN ppos0[rp[1]]}

\* entries of the send list of rank r that name particle p
EntriesOf(r, p) ==
  {n \in DOMAIN sendlist_buf[r] : n < nprtcl_send[r] /\ sendlist_buf[r][n].prtcl_indx = p}

FaceSlotOf(d) ==
  IF d[1] < 0 THEN 0 ELSE IF d[1] > 0 THEN 4
  ELSE IF d[2] < 0 THEN 8 ELSE IF d[2] > 0 THEN 12
  ELSE IF d[3] < 0 THEN 24 ELSE 28

\* C1 (as claimed): a particle past exactly one face of its block, inside on the
\* other two axes, has the face slot of that axis and direction resolved
\* (0, 4, 8, 12, 24, 28) and its owning-block id set to that neighbor's gid.
C1_FaceSlotResolved ==
  \A rp \in Detected :
    LET r == rp[1]  p == rp[2]  d == Sides(r, p) IN
    NAxesOut(d) = 1 =>
      /\ slot[r][p] = FaceSlotOf(d)
      /\ pgid[r][p] = Nghbr(r, pgid0[r][p] - Gids(r), FaceSlotOf(d)).gid
      /\ pgid[r][p] # pgid0[r][p]

EdgeSlotOf(d) ==
  IF d[3] = 0 THEN 16 + 2 * Up(d[1]) + 4 * Up(d[2])
  ELSE IF d[2] = 0 THEN 32 + 2 * Up(d[1]) + 4 * Up(d[3])
  ELSE 40 + 2 * Up(d[2]) + 4 * Up(d[3])

CornerSlotOf(d) == 48 + Up(d[1]) + 2 * Up(d[2]) + 4 * Up(d[3])

\* C8: a particle past its block on exactly two axes has the edge slot of that
\* axis pair and direction pair resolved (x1x2 16/18/20/22, x3x1 32/34/36/38,
\* x2x3 40/42/44/46), one past it on three axes the corner slot of its octant
\* (48 + 1 above x1max + 2 above x2max + 4 above x3max); the slot describes the
\* neighbor in the particle's direction, the id becomes that neighbor's gid
\* and the particle is recorded at most once.
C8_EdgeAndCornerSlots ==
  \A rp \in Detected :
    LET r == rp[1]  p == rp[2]  d == Sides(r, p) IN
    /\ NAxesOut(d) = 2 =>
         /\ slot[r][p] = EdgeSlotOf(d)
         /\ slot[r][p] \in EdgeSlots
         /\ d[3] = 0 => slot[r][p] \in {16, 18, 20, 22}
         /\ d[2] = 0 => slot[r][p] \in {32, 34, 36, 38}
         /\ d[1] = 0 => slot[r][p] \in {40, 42, 44, 46}
    /\ NAxesOut(d) = 3 => slot[r][p] = CornerSlotOf(d)
    /\ NAxesOut(d) >= 2 =>
         /\ SlotDir(slot[r][p]) = d
         /\ pgid[r][p] = Nghbr(r, pgid0[r][p] - Gids(r), slot[r][p]).gid
         /\ Cardinality(EntriesOf(r, p)) <= 1

\* an edge crossing toward a block of another rank has been processed and recorded
C8_Witness ==
  \E rp \in Detected :
    /\ Sides(rp[1], rp[2]) = <<1, 0, -1>>
    /\ slot[rp[1]][rp[2]] = 34
    /\ Cardinality(EntriesOf(rp[1], rp[2])) = 1

InMesh(x, lo, hi) == lo <= x /\ x <= hi

\* C9: a particle inside its owning block on all three axes keeps its
\* owning-block id, gets no send-list entry, and keeps every position
\* component that lies inside the mesh on that axis.
C9_InsideUnchanged ==
  \A rp \in Detected :
    LET r == rp[1]  p == rp[2]  x0 == ppos0[r][p]  x == ppos[r][p] IN
    Sides(r, p) = <<0, 0, 0>> =>
      /\ pgid[r][p] = pgid0[r][p]
      /\ slot[r][p] = NoSlot
      /\ EntriesOf(r, p) = {}
      /\ InMesh(x0[1], MeshSize.x1min, MeshSize.x1max) => x[1] = x0[1]
      /\ InMesh(x0[2], MeshSize.x2min, MeshSize.x2max) => x[2] = x0[2]
      /\ InMesh(x0[3], MeshSize.x3min, MeshSize.x3max) => x[3] = x0[3]

\* a processed particle that sits on a face of its block and on the mesh boundary
C9_Witness ==
  \E rp \in Detected :
    /\ Sides(rp[1], rp[2]) = <<0, 0, 0>>
    /\ ppos0[rp[1]][rp[2]][1] = MeshSize.x1max
    /\ ppos[rp[1]][rp[2]] = ppos0[rp[1]][rp[2]]

Remapped(x0, x, lo, hi) ==
  /\ x0 > hi => x = lo + (x0 - hi)
  /\ x0 < lo => x = hi - (lo - x0)
  /\ InMesh(x0, lo, hi) => x = x0

\* C10: on every axis a coordinate at domain_max + delta is remapped to
\* domain_min + delta and one at domain_min - delta to domain_max - delta,
\* whatever block-boundary branch the particle took and whether or not it
\* migrated; a coordinate inside the domain is not changed.
C10_PeriodicWrap ==
  \A rp \in Detected :
    LET x0 == ppos0[rp[1]][rp[2]]  x == ppos[rp[1]][rp[2]] IN
    /\ Remapped(x0[1], x[1], MeshSize.x1min, MeshSize.x1max)
    /\ Remapped(x0[2], x[2], MeshSize.x2min, MeshSize.x2max)
    /\ Remapped(x0[3], x[3], MeshSize.x3min, MeshSize.x3max)

\* a particle that left the mesh through its upper x1 boundary and lower x3
\* boundary, and one that left it without being reassigned
C10_Witness ==
  \E rp \in Detected :
    LET x0 == ppos0[rp[1]][rp[2]]  x == ppos[rp[1]][rp[2]] IN
    /\ x0[1] = MeshSize.x1max + Reach
    /\ x[1] = MeshSize.x1min + Reach
    /\ x0[3] < MeshSize.x3min
    /\ x[3] = MeshSize.x3max - (MeshSize.x3min - x0[3])
    /\ pgid[rp[1]][rp[2]] # pgid0[rp[1]][rp[2]]

\* the particles of rank r the detector found past their block toward a block
\* of another rank
Departing(r) == {p \in DOMAIN ppos0[r] : OffRank(r, pgid0[r][p], ppos0[r][p])}

Reached(r, l) == PcOrd(pc[r]) >= PcOrd(l)

\* the sends of rank r that carry the wire record of its particle p
CarriedIn(r, p) ==
  {nk \in (DOMAIN send_req[r]) \X UNION {DOMAIN send_req[r][n].data : n \in DOMAIN send_req[r]} :
     /\ nk[2] \in DOMAIN send_req[r][nk[1]].data
     /\ send_req[r][nk[1]].data[nk[2]].v = pvel[r][p]}

\* C2 (as claimed): the send posted for outbound tuple n carries the range of
\* the send buffer that starts at the sum of the counts of tuples 0..n-1 and
\* has the length of tuple n's count; every wire record sent to rank d was
\* built from a send-list entry whose destination rank is d, and every
\* departing particle is transmitted exactly once, to its destination rank.
C2_SendRanges ==
  \A r \in Ranks : pc[r] = "done" =>
    /\ \A n \in DOMAIN send_req[r] :
         /\ send_req[r][n].data_start = SumCounts(sends_thisrank[r], n)
         /\ send_req[r][n].data_end - send_req[r][n].data_start = sends_thisrank[r][n][3]
         /\ \A k \in DOMAIN send_req[r][n].data :
              RankOfGid(send_req[r][n].data[k].dest_gid) = send_req[r][n].dest
    /\ \A p \in Departing(r) :
         /\ Cardinality(CarriedIn(r, p)) = 1
         /\ \A nk \in CarriedIn(r, p) : send_req[r][nk[1]].dest = RankOfGid(pgid[r][p])

\* C3 (as claimed): the receive posted for inbound tuple n targets the segment
\* of the receive buffer that starts at the sum of the counts of inbound
\* tuples 0..n-1 and has the length of tuple n's count; the segments of
\* distinct sources are pairwise disjoint and cover the receive buffer.
C3_RecvSegments ==
  \A r \in Ranks : Reached(r, "send") =>
    /\ \A n \in DOMAIN recv_req[r] :
         /\ recv_req[r][n].data_start = SumCounts(recvs_thisrank[r], n)
         /\ recv_req[r][n].data_end - recv_req[r][n].data_start = recvs_thisrank[r][n][3]
    /\ \A a, b \in DOMAIN recv_req[r] :
         a < b => recv_req[r][a].data_end <= recv_req[r][b].data_start
    /\ \A i \in 0..(nprtcl_recv[r] - 1) :
         \E n \in DOMAIN recv_req[r] :
            recv_req[r][n].data_start <= i /\ i < recv_req[r][n].data_end

RECURSIVE ConcatRanks(_)
\* the tuples of ranks 0..k-1, rank after rank
ConcatRanks(k) ==
  IF k = 0 THEN Empty0
  ELSE LET head == ConcatRanks(k - 1) IN
       [n \in 0..(Len0(head) + Len0(sends_thisrank[k - 1]) - 1) |->
          IF n < Len0(head) THEN head[n] ELSE sends_thisrank[k - 1][n - Len0(head)]]

RECURSIVE SumNsends(_)
SumNsends(k) == IF k = 0 THEN 0 ELSE SumNsends(k - 1) + nsends[k - 1]

\* C4: once MPI_Allgatherv has returned on a rank, its sends_allranks is the
\* concatenation in increasing rank order of every rank's sends_thisrank, the
\* block of rank q starting at the sum of the tuple counts of ranks 0..q-1; its
\* length is the sum of all tuple counts, and all such ranks hold the same array.
C4_GlobalTripleArray ==
  \A r \in Ranks : Reached(r, "bar4") =>
    /\ sends_allranks[r] = ConcatRanks(NRanks)
    /\ Len0(sends_allranks[r]) = SumNsends(NRanks)
    /\ \A q \in Ranks : \A n \in DOMAIN sends_thisrank[q] :
         sends_allranks[r][SumNsends(q) + n] = sends_thisrank[q][n]
    /\ \A q \in Ranks : Reached(q, "bar4") => sends_allranks[q] = sends_allranks[r]

\* the rendezvous is over everywhere; two ranks had one tuple each and the
\* block of the later one starts past that of the earlier one
C4_Witness ==
  /\ \A r \in Ranks : Reached(r, "recv")
  /\ \E o, q \in Ranks :
       /\ 0 < o /\ o < q /\ nsends[o] = 1 /\ nsends[q] = 1
       /\ SumNsends(q) = 1
       /\ sends_allranks[0][SumNsends(q)][1] = q

RECURSIVE SumOutbound(_)
SumOutbound(k) ==
  IF k = 0 THEN 0 ELSE SumOutbound(k - 1) + SumCounts(sends_thisrank[k - 1], nsends[k - 1])

RECURSIVE SumInbound(_)
SumInbound(k) == IF k = 0 THEN 0 ELSE SumInbound(k - 1) + nprtcl_recv[k - 1]

\* C5: when every rank has run InitPrtclRecv, the sum over all ranks of the
\* counts in sends_thisrank equals the sum over all ranks of nprtcl_recv.
C5_OutboundEqualsInbound ==
  (\A r \in Ranks : Reached(r, "send")) => SumOutbound(NRanks) = SumInbound(NRanks)

\* every rank has run InitPrtclRecv and all particles of the step depart, two
\* of them toward the same rank from different ranks
C5_Witness ==
  /\ \A r \in Ranks : Reached(r, "send")
  /\ SumInbound(NRanks) = NPrtcl
  /\ \E r \in Ranks : nrecvs[r] = 2

\* C6: when all ranks have posted, every send of rank s to rank d of c wire
\* records has exactly one receive on d with source s, of c records in bytes,
\* and every receive has exactly one such send.
C6_SendsMatchRecvs ==
  (\A r \in Ranks : pc[r] = "done") =>
    /\ \A s \in Ranks : \A n \in DOMAIN send_req[s] :
         LET snd == send_req[s][n] IN
         /\ snd.dest \in Ranks
         /\ snd.data_size = Len0(snd.data) * SizeofParticleData
         /\ Cardinality({k \in DOMAIN recv_req[snd.dest] :
                           recv_req[snd.dest][k].source = s}) = 1
         /\ \A k \in DOMAIN recv_req[snd.dest] :
              recv_req[snd.dest][k].source = s =>
                 recv_req[snd.dest][k].data_size = snd.data_size
    /\ \A d \in Ranks : \A k \in DOMAIN recv_req[d] :
         LET rcv == recv_req[d][k] IN
         /\ rcv.source \in Ranks
         /\ Cardinality({n \in DOMAIN send_req[rcv.source] :
                           send_req[rcv.source][n].dest = d}) = 1
         /\ \A n \in DOMAIN send_req[rcv.source] :
              send_req[rcv.source][n].dest = d =>
                 send_req[rcv.source][n].data_size = rcv.data_size

\* all ranks have posted; one rank posted one send of all NPrtcl records, and
\* its receiver one receive of as many records from that rank
C6_Witness ==
  /\ \A r \in Ranks : pc[r] = "done"
  /\ \E s \in Ranks : \E n \in DOMAIN send_req[s] :
       /\ Len0(send_req[s][n].data) = NPrtcl
       /\ \E k \in DOMAIN recv_req[send_req[s][n].dest] :
            /\ recv_req[send_req[s][n].dest][k].source = s
            /\ recv_req[send_req[s][n].dest][k].data_size = NPrtcl * SizeofParticleData

\* the block next to block g in direction d of the periodic mesh
BlockToward(g, d) ==
  GidAt(BlkI(g) + d[1] + MeshNB, BlkJ(g) + d[2] + MeshNB, BlkK(g) + d[3] + NRanks)

\* C11 (as claimed): every particle the detector found past an extent of its
\* owning block, toward a block of its own rank or of another rank, has its
\* owning-block id overwritten with the gid of the block it moved into.
C11_GidNamesBlockMovedInto ==
  \A rp \in Detected :
    LET r == rp[1]  p == rp[2]  d == Sides(r, p) IN
    NAxesOut(d) >= 1 => pgid[r][p] = BlockToward(pgid0[r][p], d)

\* C12: a processed particle has an entry in the send list if and only if a
\* neighbor was resolved for it and that neighbor's rank is not the local
\* rank; the entry is unique and holds the particle's index, the neighbor's gid
\* and the neighbor's rank; a particle that moved into a block of the local
\* rank has no entry, and nprtcl_send counts the entries.
C12_RecordIffOffRank ==
  /\ \A rp \in Detected :
       LET r == rp[1]  p == rp[2]  s == slot[r][p]  m == pgid0[r][p] - Gids(r) IN
       /\ (EntriesOf(r, p) # {}) <=> (s # NoSlot /\ Nghbr(r, m, s).rank # r)
       /\ Cardinality(EntriesOf(r, p)) <= 1
       /\ \A n \in EntriesOf(r, p) :
            sendlist_buf[r][n] = [prtcl_indx |-> p, dest_gid |-> Nghbr(r, m, s).gid,
                                  dest_rank |-> Nghbr(r, m, s).rank]
       /\ (s # NoSlot /\ RankOfGid(pgid[r][p]) = r) => EntriesOf(r, p) = {}
       /\ (Sides(r, p)[3] = 0) => EntriesOf(r, p) = {}
  /\ \A r \in Ranks : pc[r] # "detect" =>
       nprtcl_send[r] = Cardinality({p \in DOMAIN ppos0[r] : EntriesOf(r, p) # {}})

\* a particle past the upper x3 face only was recorded for the next rank, and
\* the record is the first entry of the send list
C12_Witness ==
  \E rp \in Detected :
    LET r == rp[1]  p == rp[2] IN
    /\ Sides(r, p) = <<0, 0, 1>>
    /\ slot[r][p] = 28
    /\ EntriesOf(r, p) = {0}
    /\ sendlist_buf[r][0].dest_rank = (r + 1) % NRanks
    /\ sendlist_buf[r][0].dest_gid = pgid[r][p]

\* ---------------------------------------------------- transfer-list claims
\* the detector's records of rank r: entries 0..nprtcl_send-1 of the device list
Records(r) == {sendlist_buf[r][n] : n \in {k \in DOMAIN sendlist_buf[r] : k < Len0(sendlist[r])}}

\* C13: once CountSendsAndRecvs has built sends_thisrank, the sum of the counts
\* of its tuples equals nprtcl_send, the number of records the detector wrote,
\* and the length of the host list; with no record the tuple list is empty.
C13_CountsSumToDepartures ==
  \A r \in Ranks : Reached(r, "bar1") =>
    /\ nsends[r] = Len0(sends_thisrank[r])
    /\ SumCounts(sends_thisrank[r], nsends[r]) = nprtcl_send[r]
    /\ nprtcl_send[r] = Cardinality({p \in DOMAIN ppos0[r] : EntriesOf(r, p) # {}})
    /\ nprtcl_send[r] = Len0(sendlist[r])
    /\ nprtcl_send[r] = 0 => sends_thisrank[r] = Empty0

\* one rank coalesced NDepart records into two tuples and a rank without
\* departures built the empty list
C13_Witness ==
  /\ \E r \in Ranks :
       /\ Reached(r, "bar1")
       /\ nprtcl_send[r] = NDepart
       /\ nsends[r] = 2
       /\ sends_thisrank[r][0][3] + sends_thisrank[r][1][3] = NDepart
  /\ \E r \in Ranks : Reached(r, "bar1") /\ nprtcl_send[r] = 0 /\ nsends[r] = 0

\* destination ranks present in the host list of rank r
DestRanks(r) == {sendlist[r][n].dest_rank : n \in DOMAIN sendlist[r]}

\* C14: after the sort the host list holds the detector's records, those of
\* one destination rank contiguous; sends_thisrank holds exactly one tuple
\* <<this rank, destination rank, run length>> per destination rank present,
\* so nsends is the number of distinct destination ranks.
C14_OneTriplePerDestination ==
  \A r \in Ranks : Reached(r, "bar1") =>
    /\ {sendlist[r][n] : n \in DOMAIN sendlist[r]} = Records(r)
    /\ Cardinality(Records(r)) = Len0(sendlist[r])
    /\ \A a, b, c \in DOMAIN sendlist[r] :
         (a < b /\ b < c /\ sendlist[r][a].dest_rank = sendlist[r][c].dest_rank)
            => sendlist[r][b].dest_rank = sendlist[r][a].dest_rank
    /\ \A d \in DestRanks(r) :
         /\ Cardinality({n \in DOMAIN sends_thisrank[r] : sends_thisrank[r][n][2] = d}) = 1
         /\ \A n \in DOMAIN sends_thisrank[r] :
              sends_thisrank[r][n][2] = d =>
                sends_thisrank[r][n] =
                  <<r, d, Cardinality({k \in DOMAIN sendlist[r] : sendlist[r][k].dest_rank = d})>>
    /\ \A n \in DOMAIN sends_thisrank[r] : sends_thisrank[r][n][2] \in DestRanks(r)
    /\ nsends[r] = Cardinality(DestRanks(r))

\* the detector wrote records for destinations a, b, a in that order; the sort
\* moved them and two tuples were built, one of them of two particles
C14_Witness ==
  \E r \in Ranks :
    /\ Reached(r, "bar1")
    /\ Len0(sendlist[r]) = 3
    /\ sendlist_buf[r][0].dest_rank = sendlist_buf[r][2].dest_rank
    /\ sendlist_buf[r][0].dest_rank # sendlist_buf[r][1].dest_rank
    /\ sendlist[r][0].dest_rank # sendlist_buf[r][0].dest_rank
    /\ nsends[r] = 2
    /\ \E n \in DOMAIN sends_thisrank[r] : sends_thisrank[r][n][3] = 2

\* ------------------------------------------------ receive and pack claims
\* positions of the global array of rank r whose tuple names r as the receiver
InboundAt(r) == {n \in DOMAIN sends_allranks[r] : sends_allranks[r][n][2] = r}

\* the ranks whose host list has a record for rank r, and those records
SendersTo(r) == {s \in Ranks : \E n \in DOMAIN sendlist[s] : sendlist[s][n].dest_rank = r}
DeparturesTo(r) ==
  {sn \in Ranks \X UNION {DOMAIN sendlist[s] : s \in Ranks} :
     sn[2] \in DOMAIN sendlist[sn[1]] /\ sendlist[sn[1]][sn[2]].dest_rank = r}

\* C15: after InitPrtclRecv on rank r, recvs_thisrank holds the tuples of the
\* global array whose recvrank is r, in the order of the global array, and
\* nothing else; it has one tuple per rank that sends to r, and their counts
\* sum to the number of particles departing toward r.
C15_InboundTriples ==
  \A r \in Ranks : Reached(r, "send") =>
    /\ Len0(recvs_thisrank[r]) = Cardinality(InboundAt(r))
    /\ \A i \in DOMAIN recvs_thisrank[r] :
         /\ recvs_thisrank[r][i] = sends_allranks[r][Nth(InboundAt(r), i)]
         /\ recvs_thisrank[r][i][2] = r
    /\ nrecvs[r] = Cardinality(SendersTo(r))
    /\ SumCounts(recvs_thisrank[r], nrecvs[r]) = Cardinality(DeparturesTo(r))

\* two ranks each sent one particle to a third: its inbound list has the two
\* tuples, that of the lower sender first
C15_Witness ==
  \E r \in Ranks :
    /\ Reached(r, "send")
    /\ Cardinality(SendersTo(r)) = 2
    /\ Len0(recvs_thisrank[r]) = 2
    /\ recvs_thisrank[r][0][1] < recvs_thisrank[r][1][1]
    /\ recvs_thisrank[r][0][3] + recvs_thisrank[r][1][3] = Cardinality(DeparturesTo(r))

\* C16: InitPrtclRecv sizes prtcl_recvbuf to the sum of the counts of the
\* inbound tuples and posts one receive per inbound tuple, from that tuple's
\* sender and of its count in bytes: a rank that sends to this rank has exactly
\* one receive request, any other rank has none.
C16_OneReceivePerSource ==
  \A r \in Ranks : Reached(r, "send") =>
    /\ Len0(prtcl_recvbuf[r]) = SumCounts(recvs_thisrank[r], Len0(recvs_thisrank[r]))
    /\ Len0(recv_req[r]) = Len0(recvs_thisrank[r])
    /\ DOMAIN recv_stat[r] = DOMAIN recv_req[r]
    /\ \A n \in DOMAIN recv_req[r] :
         /\ recv_req[r][n].source = recvs_thisrank[r][n][1]
         /\ recv_req[r][n].data_size = recvs_thisrank[r][n][3] * SizeofParticleData
    /\ \A s \in Ranks :
         Cardinality({n \in DOMAIN recv_req[r] : recv_req[r][n].source = s})
            = IF s \in SendersTo(r) THEN 1 ELSE 0

\* a rank posted two receives, from different ranks, into a buffer of two
\* records, and a rank nobody sends to posted none
C16_Witness ==
  /\ \E r \in Ranks :
       /\ Reached(r, "send")
       /\ Len0(recv_req[r]) = 2
       /\ recv_req[r][0].source # recv_req[r][1].source
       /\ Len0(prtcl_recvbuf[r]) = 2
  /\ \E r \in Ranks : Reached(r, "send") /\ recv_req[r] = Empty0

\* C17: after PackAndSendPrtcls with a non-zero outbound count, prtcl_sendbuf
\* has exactly that many wire records; record n holds the destination gid of
\* entry n of the sorted host list and the position and velocity of the
\* particle that entry indexes, so the records are in destination-rank order
\* and every departing particle has one record.
C17_WireRecordsSorted ==
  \A r \in Ranks : (pc[r] = "done" /\ nprtcl_send[r] > 0) =>
    /\ Len0(prtcl_sendbuf[r]) = nprtcl_send[r]
    /\ Len0(prtcl_sendbuf[r]) = Len0(sendlist[r])
    /\ \A n \in DOMAIN prtcl_sendbuf[r] :
         LET p == sendlist[r][n].prtcl_indx IN
         /\ prtcl_sendbuf[r][n].dest_gid = sendlist[r][n].dest_gid
         /\ prtcl_sendbuf[r][n].dest_gid = pgid[r][p]
         /\ prtcl_sendbuf[r][n].x = ppos[r][p]
         /\ prtcl_sendbuf[r][n].v = VelOf(r, p)
    /\ \A a, b \in DOMAIN prtcl_sendbuf[r] :
         a < b => RankOfGid(prtcl_sendbuf[r][a].dest_gid) <= RankOfGid(prtcl_sendbuf[r][b].dest_gid)
    /\ \A p \in Departing(r) :
         Cardinality({n \in DOMAIN prtcl_sendbuf[r] : prtcl_sendbuf[r][n].v = VelOf(r, p)}) = 1

\* a rank packed two records after the sort had exchanged its two entries:
\* record 0 is that of the particle the detector recorded second
C17_Witness ==
  \E r \in Ranks :
    /\ pc[r] = "done"
    /\ nprtcl_send[r] = 2
    /\ sendlist_buf[r][0].dest_rank > sendlist_buf[r][1].dest_rank
    /\ prtcl_sendbuf[r][0].v = VelOf(r, sendlist_buf[r][1].prtcl_indx)
    /\ prtcl_sendbuf[r][0].dest_gid = sendlist_buf[r][1].dest_gid

\* ------------------------------------- rendezvous and retirement claims
\* C19: no rank has left MPI_Allgather, left CountSendsAndRecvs or posted a
\* receive or a send while some rank has not yet built its sends_thisrank and
\* entered MPI_Allgather with its tuple count.
C19_RendezvousSynchronizes ==
  \A r \in Ranks :
    (Reached(r, "bar2") \/ recv_req[r] # Empty0 \/ send_req[r] # Empty0) =>
      \A q \in Ranks :
        /\ Reached(q, "gather")
        /\ gath[q] = Len0(sends_thisrank[q])
        /\ Len0(sendlist[q]) = Cardinality(Departing(q))

\* one rank has left MPI_Allgather with the counts of all ranks while another,
\* which has departures, is still inside the call
C19_Witness ==
  \E r, q \in Ranks :
    /\ pc[r] = "bar2"
    /\ pc[q] = "gather"
    /\ nsends[q] > 0
    /\ nsends_eachrank[r][q] = nsends[q]

NoDepartures == \A q \in Ranks : Departing(q) = {}

\* C18: a rank without off-rank departures builds no tuple and posts no send;
\* when no rank has a departure, no rank has an inbound tuple or posts a
\* receive, and ClearPrtclSend and ClearPrtclRecv can return at once, their
\* loops waiting on no request.
C18_ZeroDepartures ==
  /\ \A r \in Ranks : (Reached(r, "bar1") /\ Departing(r) = {}) =>
       /\ sends_thisrank[r] = Empty0
       /\ nsends[r] = 0
       /\ send_req[r] = Empty0
       /\ send_stat[r] = Empty0
  /\ NoDepartures => \A r \in Ranks :
       /\ Reached(r, "send") =>
            /\ recvs_thisrank[r] = Empty0
            /\ nrecvs[r] = 0
            /\ recv_req[r] = Empty0
            /\ prtcl_recvbuf[r] = Empty0
       /\ (pc[r] = "done" /\ ~send_cleared[r]) => ENABLED ClearPrtclSend(r)
       /\ (pc[r] = "done" /\ ~recv_cleared[r]) => ENABLED ClearPrtclRecv(r)

\* no particle left its rank and every rank has returned from both clears
\* with no request ever posted
C18_Witness ==
  /\ NoDepartures
  /\ \A r \in Ranks :
       /\ send_cleared[r] /\ recv_cleared[r]
       /\ send_stat[r] = Empty0 /\ recv_stat[r] = Empty0

\* C20: on a rank where ClearPrtclSend has returned no send of the step is
\* pending, where ClearPrtclRecv has returned no receive is; when both have
\* returned, every request the rank posted in the step has completed.
C20_RequestsRetired ==
  \A r \in Ranks :
    /\ send_cleared[r] =>
         /\ DOMAIN send_stat[r] = DOMAIN send_req[r]
         /\ \A n \in DOMAIN send_req[r] : send_stat[r][n] = "null"
    /\ recv_cleared[r] =>
         /\ DOMAIN recv_stat[r] = DOMAIN recv_req[r]
         /\ \A k \in DOMAIN recv_req[r] : recv_stat[r][k] = "null"
    /\ (send_cleared[r] /\ recv_cleared[r]) =>
         /\ Len0(send_req[r]) = Len0(sends_thisrank[r])
         /\ Len0(recv_req[r]) = Len0(recvs_thisrank[r])

\* every rank has returned from both clears; one of them had posted two sends
\* and another a receive
C20_Witness ==
  /\ \A r \in Ranks : send_cleared[r] /\ recv_cleared[r]
  /\ \E r \in Ranks : Len0(send_req[r]) = 2
  /\ \E r \in Ranks : Len0(recv_req[r]) = 1 /\ prtcl_recvbuf[r][0] # NullWire

\* ---------------------------------------------------------------------------
\* detector on a mesh whose boundaries are not periodic
\* ---------------------------------------------------------------------------

\* one particle anywhere on the mesh or up to Reach past it, on the rank that
\* owns its block; the neighbor slots past the mesh boundary hold no block
InitOpen ==
  \E r0 \in Ranks : \E m \in 0..(NmbPerRank - 1) : \E x \in BlockPositions(r0, m) :
    /\ pc = [r \in Ranks |-> "detect"]
    /\ ppos = [r \in Ranks |-> IF r = r0 THEN [p \in {0} |-> x] ELSE Empty0]
    /\ pgid = [r \in Ranks |-> IF r = r0 THEN [p \in {0} |-> Gids(r0) + m] ELSE Empty0]
    /\ ppos0 = ppos
    /\ pgid0 = pgid
    /\ slot = [r \in Ranks |-> [p \in DOMAIN ppos[r] |-> NoSlot]]
    /\ sendlist_buf = [r \in Ranks |-> [p \in DOMAIN ppos[r] |-> NullRec]]
    /\ nprtcl_send = [r \in Ranks |-> 0]
    /\ NoLanes
    /\ ExchangeIdle
    /\ periodic = FALSE

NextOpen == \E r \in Ranks : SetNewPrtclGID(r)

SpecOpen == InitOpen /\ [][NextOpen]_vars

ValidGids == 0..(NGids - 1)

\* C26 (as claimed): every record the detector writes names a rank in
\* 0..nranks-1 and a block id of the mesh; a particle that crossed toward a
\* neighbor slot holding no block gets no record and keeps a valid
\* owning-block id.
C26_DestinationsExist ==
  \A rp \in Detected :
    LET r == rp[1]  p == rp[2] IN
    /\ \A n \in EntriesOf(r, p) :
         /\ sendlist_buf[r][n].dest_rank \in Ranks
         /\ sendlist_buf[r][n].dest_gid \in ValidGids
    /\ pgid[r][p] \in ValidGids
    /\ (slot[r][p] # NoSlot /\ Nghbr(r, pgid0[r][p] - Gids(r), slot[r][p]) = NoBlock)
         => EntriesOf(r, p) = {}

\* ---------------------------------------------------------------------------
\* strictness of the range tests
\* ---------------------------------------------------------------------------

\* extents of the owning block of particle p of rank r on axis a, as <<lo, hi>>
BlockExtent(r, p, a) ==
  LET mb == MbSize(r, pgid0[r][p] - Gids(r)) IN
  IF a = 1 THEN <<mb.x1min, mb.x1max>>
  ELSE IF a = 2 THEN <<mb.x2min, mb.x2max>> ELSE <<mb.x3min, mb.x3max>>

MeshExtent(a) ==
  IF a = 1 THEN <<MeshSize.x1min, MeshSize.x1max>>
  ELSE IF a = 2 THEN <<MeshSize.x2min, MeshSize.x2max>>
  ELSE <<MeshSize.x3min, MeshSize.x3max>>

OnExtent(x, e) == x = e[1] \/ x = e[2]

\* C30: the range tests are strict. A coordinate equal to an extent of the
\* owning block counts as inside on that axis: the resolved slot has no
\* component along that axis, and a particle that is inside or on the extent on
\* all three axes is not reassigned and not recorded. A coordinate equal to an
\* extent of the mesh is not wrapped.
C30_StrictRangeTests ==
  \A rp \in Detected :
    LET r == rp[1]  p == rp[2]  x0 == ppos0[r][p]  x == ppos[r][p] IN
    /\ \A a \in 1..3 :
         /\ (OnExtent(x0[a], BlockExtent(r, p, a)) /\ slot[r][p] # NoSlot)
               => SlotDir(slot[r][p])[a] = 0
         /\ OnExtent(x0[a], MeshExtent(a)) => x[a] = x0[a]
    /\ ( /\ \A a \in 1..3 : InMesh(x0[a], BlockExtent(r, p, a)[1], BlockExtent(r, p, a)[2])
         /\ \E a \in 1..3 : OnExtent(x0[a], BlockExtent(r, p, a)) )
       => /\ slot[r][p] = NoSlot
          /\ pgid[r][p] = pgid0[r][p]
          /\ EntriesOf(r, p) = {}

\* a processed particle on the upper x1 extent of its block and of the mesh that
\* crossed the upper x2 face only: resolved to the x2 face, x1 left alone
C30_Witness ==
  \E rp \in Detected :
    LET r == rp[1]  p == rp[2]  x0 == ppos0[r][p] IN
    /\ x0[1] = BlockExtent(r, p, 1)[2] /\ x0[1] = MeshSize.x1max
    /\ x0[2] > BlockExtent(r, p, 2)[2]
    /\ x0[3] = BlockExtent(r, p, 3)[1]
    /\ slot[r][p] = 12
    /\ ppos[r][p][1] = x0[1]

\* ---------------------------------------------------------------------------
\* shape of the tuple lists
\* ---------------------------------------------------------------------------

\* C28: every tuple of sends_thisrank of a rank has that rank as sender, a
\* receiver that is another rank, and a count of at least 1; the tuples are in
\* strictly increasing order of receiver. In the global array every (sender,
\* receiver) pair occurs at most once, and recvs_thisrank is in strictly
\* increasing order of sender.
C28_TripleShape ==
  \A r \in Ranks :
    /\ Reached(r, "bar1") =>
         /\ \A n \in DOMAIN sends_thisrank[r] :
              /\ sends_thisrank[r][n][1] = r
              /\ sends_thisrank[r][n][2] # r
              /\ sends_thisrank[r][n][2] \in Ranks
              /\ sends_thisrank[r][n][3] >= 1
         /\ \A a, b \in DOMAIN sends_thisrank[r] :
              a < b => sends_thisrank[r][a][2] < sends_thisrank[r][b][2]
    /\ Reached(r, "recv") =>
         \A a, b \in DOMAIN sends_allranks[r] :
           (a # b) => <<sends_allranks[r][a][1], sends_allranks[r][a][2]>>
                        # <<sends_allranks[r][b][1], sends_allranks[r][b][2]>>
    /\ Reached(r, "send") =>
         \A a, b \in DOMAIN recvs_thisrank[r] :
           a < b => recvs_thisrank[r][a][1] < recvs_thisrank[r][b][1]

\* a rank whose two records the sort exchanged built two tuples, the lower
\* receiver first, and has posted its receives from the global array
C28_Witness ==
  \E r \in Ranks :
    /\ Reached(r, "send")
    /\ nsends[r] = 2
    /\ sendlist_buf[r][0].dest_rank > sendlist_buf[r][1].dest_rank
    /\ sends_thisrank[r][0][2] < sends_thisrank[r][1][2]
    /\ Len0(sends_allranks[r]) = 2

\* ---------------------------------------------------------------------------
\* independence of the lane order
\* ---------------------------------------------------------------------------

\* the particles of rank r that stood off-rank toward rank d when the step began
DepartingTo(r, d) ==
  {p \in Departing(r) :
     Nghbr(r, pgid0[r][p] - Gids(r), SlotOf(r, pgid0[r][p], ppos0[r][p])).rank = d}

RECURSIVE TriplesFrom(_, _)
\* one tuple per receiver d, d + 1, ... that some particle of rank r departs to
TriplesFrom(r, d) ==
  IF d >= NRanks THEN Empty0
  ELSE LET rest == TriplesFrom(r, d + 1)
           k == Cardinality(DepartingTo(r, d))
       IN IF k = 0 THEN rest ELSE Prepend0(rest, <<r, d, k>>)

\* the wire record of particle p of rank r, from where it stood when the step began
WireOf(r, p) ==
  [dest_gid |-> NewGid(r, pgid0[r][p], ppos0[r][p]),
   x |-> WrapPos(ppos0[r][p]),
   v |-> VelOf(r, p)]

\* C29: sends_thisrank and, per destination rank, the multiset of wire records
\* are functions of the particles the step began with: whatever order the lanes
\* claimed the send-list entries in and however the sort ordered the records of
\* one destination, sends_thisrank is the list of <<rank, d, number of particles
\* departing to d>> in increasing d, and the send buffer holds each departing
\* particle's wire record once, among the records of its destination.
C29_LaneOrderIndependent ==
  \A r \in Ranks :
    /\ Reached(r, "bar1") => sends_thisrank[r] = TriplesFrom(r, 0)
    /\ (pc[r] = "done" /\ nprtcl_send[r] > 0) =>
         \A d \in Ranks :
           LET slots == {n \in DOMAIN prtcl_sendbuf[r] :
                           RankOfGid(prtcl_sendbuf[r][n].dest_gid) = d}
           IN /\ Cardinality(slots) = Cardinality(DepartingTo(r, d))
              /\ \A p \in DepartingTo(r, d) :
                   Cardinality({n \in slots : prtcl_sendbuf[r][n] = WireOf(r, p)}) =
                     Cardinality({q \in DepartingTo(r, d) : WireOf(r, q) = WireOf(r, p)})

\* two particles departed to one rank; the lane of the second claimed the first
\* entry, and one tuple of two particles and two wire records were built
C29_Witness ==
  \E r \in Ranks :
    /\ pc[r] = "done"
    /\ nprtcl_send[r] = 2
    /\ sendlist_buf[r][0].prtcl_indx = 1
    /\ sendlist_buf[r][0].dest_rank = sendlist_buf[r][1].dest_rank
    /\ sends_thisrank[r] = Append0(Empty0, <<r, sendlist_buf[r][0].dest_rank, 2>>)
    /\ Len0(prtcl_sendbuf[r]) = 2

\* ---------------------------------------------------------------------------
\* packing fence and failing MPI calls
\* ---------------------------------------------------------------------------

\* the sends rank r has handed to MPI in this step
PostedSends(r) == {n \in DOMAIN send_req[r] : send_req[r][n] # NullSend}

\* C21: no send is posted before every lane of the packing kernel has written
\* its wire record. Whenever the task is in its posting loop or has posted a
\* send, every lane has finished and every slot of prtcl_sendbuf holds its
\* wire record; the data of every send posted is made of such records.
C21_FillBeforeSend ==
  \A r \in Ranks :
    (pc[r] = "send_post" \/ (pack_pc[r] # Empty0 /\ PostedSends(r) # {})) =>
      /\ \A n \in DOMAIN pack_pc[r] :
           /\ pack_pc[r][n] = "done"
           /\ prtcl_sendbuf[r][n] = WireRec(r, n)
      /\ Len0(pack_pc[r]) = nprtcl_send[r]
      /\ \A n \in PostedSends(r) : \A k \in DOMAIN send_req[r][n].data :
           send_req[r][n].data[k] # NullWire

\* the kernel ran NPrtcl lanes and the first send of the step has been posted
C21_Witness ==
  /\ pc[FineRank] = "send_post"
  /\ Len0(pack_pc[FineRank]) = NPrtcl
  /\ Len0(ierrs[FineRank]) = 1
  /\ PostedSends(FineRank) = {0}

\* the loops in which a task makes its MPI calls, and the number of calls each makes
InLoop(r) == pc[r] \in {"recv_post", "send_post", "send_wait", "recv_wait"}
NCalls(r) == IF pc[r] \in {"recv_post", "recv_wait"} THEN nrecvs[r] ELSE nsends[r]
Failed(r) == \E n \in DOMAIN ierrs[r] : ierrs[r][n] # MPI_SUCCESS

\* C22: once an MPI call of InitPrtclRecv, PackAndSendPrtcls, ClearPrtclSend
\* or ClearPrtclRecv has returned an error, the task does not return complete:
\* the rank is still in the loop of that task or the process has exited, and
\* at the end of the loop the process exits. No call is made twice: a loop
\* makes at most one call per request.
C22_FailureIsFatal ==
  \A r \in Ranks :
    /\ no_errors[r] = ~Failed(r)
    /\ Failed(r) => (InLoop(r) \/ pc[r] = "exited")
    /\ pc[r] = "exited" => Failed(r)
    /\ InLoop(r) => Len0(ierrs[r]) <= NCalls(r)
    /\ (InLoop(r) /\ Failed(r) /\ Len0(ierrs[r]) = NCalls(r)) =>
         QuitIfError(no_errors[r], "done") = "exited"

\* the process exited after a wait of ClearPrtclSend had failed: its posts
\* had succeeded and ClearPrtclSend did not return
C22_Witness ==
  /\ pc[FineRank] = "exited"
  /\ Failed(FineRank)
  /\ PostedSends(FineRank) # {}
  /\ Len0(ierrs[FineRank]) = nsends[FineRank]
  /\ ~send_cleared[FineRank]
  /\ \E n \in DOMAIN send_stat[FineRank] : send_stat[FineRank][n] # "pending"

\* C23 (as claimed): after a post has reported failure the task posts nothing
\* more: in a posting loop a failed call is the last call made.
C23_NoPostAfterFailure ==
  \A r \in Ranks :
    pc[r] \in {"recv_post", "send_post"} =>
      \A n \in DOMAIN ierrs[r] :
        ierrs[r][n] # MPI_SUCCESS => n = Len0(ierrs[r]) - 1

\* ---------------------------------------------------------------------------
\* the step cannot deadlock
\* ---------------------------------------------------------------------------

AllRetired == \A r \in Ranks : send_cleared[r] /\ recv_cleared[r]

\* C24: with every rank running its tasks in the order of the step and no MPI
\* call failing, posting never blocks (a rank that has reached InitPrtclRecv or
\* PackAndSendPrtcls can always run it) and every rank eventually returns from
\* ClearPrtclSend and from ClearPrtclRecv.
C24_NoDeadlock ==
  /\ [](\A r \in Ranks :
          /\ pc[r] = "recv" => ENABLED InitPrtclRecv(r)
          /\ pc[r] = "send" => ENABLED PackAndSendPrtcls(r))
  /\ <>AllRetired

\* two ranks sent a particle to each other and every rank has returned from
\* both retirement tasks
C24_Witness ==
  /\ AllRetired
  /\ \E a, b \in Ranks :
       /\ a # b
       /\ \E n \in DOMAIN send_req[a] : send_req[a][n].dest = b
       /\ \E n \in DOMAIN send_req[b] : send_req[b][n].dest = a

\* ------------------------------------------------------ one step after another
\* C25: at the start of every step, after any number of completed steps, every
\* particle a rank stores has an owning-block id of one of the blocks of that
\* rank, so that the detector indexes mb_size and nghbr in range; no particle
\* that left for another rank is still stored with the id of a remote block.
C25_StoredGidsLocal ==
  \A r \in Ranks : pc[r] = "detect" => InRange(r)

\* the exchange of the step has counted its sends on rank r
Counted(r) == pc[r] \in {"recv", "send", "done"}

\* C27: in every step the request lists the retirement tasks wait on are the
\* lists of that step: after PackAndSendPrtcls, nsends and nrecvs are no more
\* than the lengths of send_req and recv_req; nsends is zero exactly when the
\* step sends no particle; when it is not zero, send_req holds the nsends
\* requests posted from this step's tuples and buffer; recv_req holds the
\* requests posted from this step's receive tuples; and while nsends is zero
\* the requests an earlier step left in send_req stay retired.
C27_WaitsOnCurrentRequests ==
  \A r \in Ranks :
    /\ Counted(r) => (nsends[r] = 0 <=> nprtcl_send[r] = 0)
    /\ pc[r] = "done" =>
         /\ nsends[r] <= Len0(send_req[r])
         /\ DOMAIN send_stat[r] = DOMAIN send_req[r]
         /\ nrecvs[r] = Len0(recv_req[r])
         /\ DOMAIN recv_stat[r] = DOMAIN recv_req[r]
         /\ recv_req[r] = PostRecvs(recvs_thisrank[r], 0, 0, Empty0)
         /\ nsends[r] > 0 =>
              /\ Len0(send_req[r]) = nsends[r]
              /\ send_req[r] = PostSends(prtcl_sendbuf[r], sends_thisrank[r], 0, 0, Empty0)
         /\ nsends[r] = 0 =>
              \A n \in DOMAIN send_stat[r] : send_stat[r][n] = "null"

\* the second step has sent nothing from a rank whose send_req still holds the
\* request of the first step, and ClearPrtclSend has returned on it
C27_Witness ==
  \E r \in Ranks :
    /\ nstep > 0
    /\ pc[r] = "done"
    /\ send_cleared[r]
    /\ nsends[r] = 0
    /\ Len0(send_req[r]) > 0

====
